---- MODULE Spec2Model ----
(***************************************************************************)
(* soc-sentinel: anomaly scoring and explainability engine.                *)
(*                                                                         *)
(* The model covers                                                        *)
(*   - src/src/models/anomaly_detector.py  (AnomalyDetector,               *)
(*     SupervisedClassifier, EnsembleDetector),                            *)
(*   - src/src/explainability/explainer.py (AlertExplainer),               *)
(*   - src/src/features/feature_pipeline.py (FeaturePipeline.fit_transform)*)
(*   - src/app.py (run_detection, explain_anomaly).                        *)
(*                                                                         *)
(* Numbers.  Scores are Python floats in the code; the model computes      *)
(* them as exact rationals [n |-> numerator, d |-> denominator], d > 0,    *)
(* with the same sequence of arithmetic operations as the code.            *)
(*                                                                         *)
(* Library calls.  IsolationForest.score_samples(X) is not code of the     *)
(* repository: a call on a batch X is modelled by the sequence of raw      *)
(* isolation scores the forest gives the rows of X, drawn from RawVals.    *)
(* RandomForestClassifier.predict_proba likewise yields one probability    *)
(* per row, drawn from SupVals.                                            *)
(***************************************************************************)
EXTENDS Integers, Sequences, FiniteSets, TLC

VARIABLES
    forest,            \* the IsolationForest objects, by identity
    detector,          \* the AnomalyDetector (app.detector / EnsembleDetector.anomaly_detector)
    classifier,        \* the SupervisedClassifier (EnsembleDetector.classifier)
    is_trained,        \* EnsembleDetector.is_trained
    ret,               \* outcome of the last call: its name, arguments, and result or exception
    sevA,              \* last call of AnomalyDetector._get_severity
    sevE,              \* last call of EnsembleDetector._get_severity
    explainer,         \* the AlertExplainer object
    pipeline,          \* the FeaturePipeline object
    scalers,           \* the StandardScaler objects, by identity
    app,               \* the globals of app.py
    twin,              \* a second AlertExplainer object
    prev,              \* the call before the last one, as ret recorded it
    manager,           \* the AlertManager object
    clock,             \* datetime.now(), in ticks
    inp,               \* the arguments and library results of an attribution computation
    res,               \* what the attribution computation returned
    disk,              \* the files written by export_json and by the save methods
    minute,               \* time.time() and datetime.now(), in minutes
    intel,             \* the ThreatIntelligenceClient object
    req,               \* the _make_request call under way: its frames and its position
    lookup,            \* the ThreatIntelClient object
    answered           \* per IP, the latest result a lookup of `lookup' produced, and when

scoreVars == <<forest, detector, classifier, is_trained, ret>>
sevVars == <<sevA, sevE>>
explVars == <<explainer, pipeline, scalers>>
appVars == <<app>>
reproVars == <<twin, prev>>
alertVars == <<manager, clock>>
attrVars == <<inp, res>>
intelVars == <<minute, intel, req, lookup, answered>>
ioVars == <<disk, intelVars>>
restVars == <<reproVars, alertVars, attrVars, ioVars>>

----------------------------------------------------------------------------
(* Bounds of the model *)

\* longest batch (rows of X) a call is given
MaxBatch == 2
\* raw isolation scores are -MaxRaw .. -1 (score_samples is negative)
MaxRaw == 2
\* supervised probabilities are k / SupDen, k \in 0 .. SupDen
SupDen == 1
\* fits of one forest object that the model follows
MaxFits == 2
\* the 1e-10 of predict_proba is 1 / EpsDen of the unit of the raw scores
EpsDen == 1000
\* _get_severity is applied to the scores k / Scale, k \in 0 .. Scale
Scale == 20
\* alerts one manager holds, and ticks of the clock
MaxAlerts == 2
\* columns and rows of the widest matrix that is explained
MaxWidth == 16
MaxRows == 2
MaxClock == 2
\* the recursion limit of the interpreter, in frames of _make_request
\* (sys.getrecursionlimit() is 1000 by default)
RecursionLimit == 3
\* minutes of time the model follows
MaxTime == 120

----------------------------------------------------------------------------
(* Exact rationals *)

Rat(n, d) == [n |-> n, d |-> d]
Zero == Rat(0, 1)
One == Rat(1, 1)
Half == Rat(1, 2)
Two == Rat(2, 1)

RAdd(a, b) == Rat(a.n * b.d + b.n * a.d, a.d * b.d)
RSub(a, b) == Rat(a.n * b.d - b.n * a.d, a.d * b.d)
RMul(a, b) == Rat(a.n * b.n, a.d * b.d)
\* division by a positive rational
RDiv(a, b) == Rat(a.n * b.d, a.d * b.n)
RAbs(a) == Rat(IF a.n < 0 THEN -a.n ELSE a.n, a.d)
REq(a, b) == a.n * b.d = b.n * a.d
RLt(a, b) == a.n * b.d < b.n * a.d
RLe(a, b) == a.n * b.d <= b.n * a.d
RGt(a, b) == RLt(b, a)

\* outcomes of a call
Raise(e) == [kind |-> "raise", exc |-> e]
Return(v) == [kind |-> "return", value |-> v]
IsRaise(o) == o.kind = "raise"
IsReturn(o) == o.kind = "return"

\* the element of a one-element set; {e(x) : x \in {v}} binds x to the value of v,
\* computed once (a local variable of the code)
The(S) == CHOOSE x \in S : TRUE

----------------------------------------------------------------------------
(* Severity: AnomalyDetector._get_severity, EnsembleDetector._get_severity *)

AD_get_severity_ge(score) ==
    IF RLe(Rat(95, 100), score) THEN "CRITICAL"
    ELSE IF RLe(Rat(85, 100), score) THEN "HIGH"
    ELSE IF RLe(Rat(70, 100), score) THEN "MEDIUM"
    ELSE "LOW"

AnomalyDetector_get_severity(score) ==
    IF RGt(score, Rat(95, 100)) THEN "CRITICAL"
    ELSE IF RGt(score, Rat(85, 100)) THEN "HIGH"
    ELSE IF RGt(score, Rat(70, 100)) THEN "MEDIUM"
    ELSE "LOW"

EnsembleDetector_get_severity(score) ==
    IF RGt(score, Rat(95, 100)) THEN "CRITICAL"
    ELSE IF RGt(score, Rat(85, 100)) THEN "HIGH"
    ELSE IF RGt(score, Rat(70, 100)) THEN "MEDIUM"
    ELSE "LOW"

ScoreGrid == {Rat(k, Scale) : k \in 0 .. Scale}
NoSeverity == [score |-> Rat(-1, 1), severity |-> "none"]

CallAD_get_severity(s) ==
    /\ sevA' = [score |-> s, severity |-> AnomalyDetector_get_severity(s)]
    /\ UNCHANGED <<sevE, scoreVars, explVars, appVars, restVars>>

CallED_get_severity(s) ==
    /\ sevE' = [score |-> s, severity |-> EnsembleDetector_get_severity(s)]
    /\ UNCHANGED <<sevA, scoreVars, explVars, appVars, restVars>>

----------------------------------------------------------------------------
(* Inputs *)

RawVals == (0 - MaxRaw) .. -1
SupVals == {Rat(k, SupDen) : k \in 0 .. SupDen}
\* a batch X, given by the raw isolation scores of its rows (the empty batch included)
Batches == UNION {[1 .. k -> RawVals] : k \in 0 .. MaxBatch}
\* RandomForestClassifier.predict_proba(X)[:, 1] for a batch of k rows
SupBatches(k) == [1 .. k -> SupVals]

Range(f) == {f[i] : i \in DOMAIN f}
SeqMin(s) == CHOOSE v \in Range(s) : \A w \in Range(s) : v <= w
SeqMax(s) == CHOOSE v \in Range(s) : \A w \in Range(s) : v >= w
\* the k-th smallest entry of s, 1 <= k <= Len(s)
KthSmallest(s, k) ==
    CHOOSE v \in Range(s) :
        /\ Cardinality({j \in DOMAIN s : s[j] < v}) < k
        /\ k <= Cardinality({j \in DOMAIN s : s[j] <= v})

----------------------------------------------------------------------------
(* sklearn IsolationForest, as far as AnomalyDetector uses it.            *)
(* contamination is in percent; offset is offset_ times 100.              *)

\* contamination=0.05, in percent
DefaultContamination == 5

NewForest(pct) == [contamination |-> pct, fitted |-> FALSE, gen |-> 0, offset |-> 0]

\* offset_ = np.percentile(score_samples(X), 100 * contamination), linear interpolation
Percentile100(raws, pct) ==
    LET n == Len(raws)
        pos == pct * (n - 1)
        i == pos \div 100
        rem == pos % 100
        lo == KthSmallest(raws, i + 1)
        hi == IF i + 2 <= n THEN KthSmallest(raws, i + 2) ELSE lo
    IN  lo * 100 + rem * (hi - lo)

\* fit(X): refits this object; X with no row is rejected
IsolationForest_fit(f, raws) ==
    IF Len(raws) = 0
    THEN [f |-> f, out |-> Raise("ValueError")]
    ELSE [f |-> [f EXCEPT !.fitted = TRUE, !.gen = @ + 1,
                          !.offset = Percentile100(raws, f.contamination)],
          out |-> Return("self")]

IsolationForest_score_samples(f, raws) ==
    IF ~f.fitted THEN Raise("NotFittedError")
    ELSE IF Len(raws) = 0 THEN Raise("ValueError")
    ELSE Return(raws)

\* predict(X): -1 where decision_function = score_samples - offset_ < 0, else 1
IsolationForest_predict(f, raws) ==
    IF ~f.fitted THEN Raise("NotFittedError")
    ELSE IF Len(raws) = 0 THEN Raise("ValueError")
    ELSE Return([i \in DOMAIN raws |-> IF raws[i] * 100 < f.offset THEN -1 ELSE 1])

----------------------------------------------------------------------------
(* AnomalyDetector *)

DetectorForest == "detector.isolation_forest"

NewAnomalyDetector(pct) ==
    [contamination |-> pct, isolation_forest |-> DetectorForest, feature_names |-> "none"]

\* fit: records the names, then refits the forest object the detector holds
AnomalyDetector_fit(det, fst, raws, names) ==
    LET r == IsolationForest_fit(fst[det.isolation_forest], raws)
    IN  [detector |-> [det EXCEPT !.feature_names = names],
         forest |-> [fst EXCEPT ![det.isolation_forest] = r.f],
         out |-> r.out]

AnomalyDetector_predict(det, fst, raws) ==
    LET p == IsolationForest_predict(fst[det.isolation_forest], raws)
    IN  IF IsRaise(p) THEN p
        ELSE Return([i \in DOMAIN raws |-> IF p.value[i] = -1 THEN 1 ELSE 0])

\* save: joblib.dump of the forest object, the names and the recorded contamination
\* (the scaler and the threshold are written too and play no part here)
AnomalyDetector_save(det, fst) ==
    [exists |-> TRUE,
     data |-> <<[model |-> fst[det.isolation_forest], feature_names |-> det.feature_names,
                 contamination |-> det.contamination]>>]

\* load: the detector takes the forest, the names and the contamination of the file
AnomalyDetector_load(det, fst, file) ==
    IF ~file.exists
    THEN [detector |-> det, forest |-> fst, out |-> Raise("FileNotFoundError")]
    ELSE LET data == file.data[1]
         IN  [detector |-> [det EXCEPT !.feature_names = data.feature_names,
                                       !.contamination = data.contamination],
              forest |-> [fst EXCEPT ![det.isolation_forest] = data.model],
              out |-> Return("self")]

\* 1 - (scores - min) / (max - min + 1e-10), raw scores in units of which 1e-10 is 1/EpsDen
Eps == Rat(1, EpsDen)

\* faulty variant: the rescaling without the "1 -"
Normalize_not_flipped(scores) ==
    The({ [i \in DOMAIN scores |->
              RDiv(RSub(Rat(scores[i], 1), lo), RAdd(RSub(hi, lo), Eps))] :
          lo \in {Rat(SeqMin(scores), 1)}, hi \in {Rat(SeqMax(scores), 1)} })

Normalize(scores) ==
    The({ [i \in DOMAIN scores |->
              RSub(One, RDiv(RSub(Rat(scores[i], 1), lo), RAdd(RSub(hi, lo), Eps)))] :
          lo \in {Rat(SeqMin(scores), 1)}, hi \in {Rat(SeqMax(scores), 1)} })

AnomalyDetector_predict_proba(det, fst, raws) ==
    The({ IF IsRaise(scores) THEN scores ELSE Return(Normalize(scores.value)) :
          scores \in {IsolationForest_score_samples(fst[det.isolation_forest], raws)} })

\* faulty variant: the confidence without abs()
Confidence_no_abs(p) == RMul(RSub(p, Half), Two)

\* float(abs(proba[i] - 0.5) * 2)
Confidence(p) == RMul(RAbs(RSub(p, Half)), Two)

AnomalyDetector_detect(det, fst, raws) ==
    The({ IF IsRaise(proba) THEN proba
          ELSE IF IsRaise(predictions) THEN predictions
          ELSE Return([i \in DOMAIN raws |->
                  [is_anomaly |-> predictions.value[i] # 0,
                   anomaly_score |-> proba.value[i],
                   severity |-> AnomalyDetector_get_severity(proba.value[i]),
                   confidence |-> Confidence(proba.value[i])]]) :
          proba \in {AnomalyDetector_predict_proba(det, fst, raws)},
          predictions \in {AnomalyDetector_predict(det, fst, raws)} })

----------------------------------------------------------------------------
(* SupervisedClassifier.  model_fitted: the RandomForestClassifier has    *)
(* been fitted; model_names: the columns of the matrix it was fitted on   *)
(* ("none" before any fit); is_fitted: the flag of the class.             *)

NewSupervisedClassifier ==
    [model_fitted |-> FALSE, model_names |-> "none", is_fitted |-> FALSE,
     feature_names |-> "none"]

\* fit: records the names, splits (the stratified split can raise), fits, sets the flag
SupervisedClassifier_fit(c, names, splitOk) ==
    IF ~splitOk
    THEN [classifier |-> [c EXCEPT !.feature_names = names], out |-> Raise("ValueError")]
    ELSE [classifier |-> [c EXCEPT !.feature_names = names, !.model_fitted = TRUE,
                                   !.model_names = names, !.is_fitted = TRUE],
          out |-> Return("self")]

\* the sklearn model's own check, and its rejection of a batch with no row
RandomForest_call(c, sup, result) ==
    IF ~c.model_fitted THEN Raise("NotFittedError")
    ELSE IF Len(sup) = 0 THEN Raise("ValueError")
    ELSE Return(result)

SupervisedClassifier_predict(c, sup) ==
    IF ~c.is_fitted THEN Raise("ValueError: Model not fitted")
    ELSE RandomForest_call(c, sup, [i \in DOMAIN sup |-> IF RGt(sup[i], Half) THEN 1 ELSE 0])

SupervisedClassifier_predict_proba(c, sup) ==
    IF ~c.is_fitted THEN Raise("ValueError: Model not fitted")
    ELSE RandomForest_call(c, sup, sup)

\* save: joblib.dump of the model and the names; the flag is not written
SupervisedClassifier_save(c) ==
    [exists |-> TRUE,
     data |-> <<[model |-> [fitted |-> c.model_fitted, names |-> c.model_names],
                 feature_names |-> c.feature_names]>>]

\* load: the model and the names of the file, and is_fitted = True
SupervisedClassifier_load(c, file) ==
    IF ~file.exists
    THEN [classifier |-> c, out |-> Raise("FileNotFoundError")]
    ELSE LET data == file.data[1]
         IN  [classifier |-> [c EXCEPT !.model_fitted = data.model.fitted,
                                       !.model_names = data.model.names,
                                       !.feature_names = data.feature_names,
                                       !.is_fitted = TRUE],
              out |-> Return("self")]

SupervisedClassifier_evaluate(c, sup) ==
    LET y_pred == SupervisedClassifier_predict(c, sup)
        y_proba == SupervisedClassifier_predict_proba(c, sup)
    IN  IF IsRaise(y_pred) THEN y_pred
        ELSE IF IsRaise(y_proba) THEN y_proba
        ELSE Return("metrics")

SupervisedClassifier_get_feature_importance(c) ==
    IF ~c.is_fitted THEN Return("{}")
    ELSE Return("importance by feature")

----------------------------------------------------------------------------
(* EnsembleDetector: anomaly_detector is `detector', classifier is        *)
(* `classifier'.  A result says whether the classifier was called.        *)

\* faulty variant: the verdict with >= 0.5
Blend_ge(unsupervised_scores, supervised_proba) ==
    The({ [pred |-> [i \in DOMAIN ensemble_proba |->
                        IF RLe(Half, ensemble_proba[i]) THEN 1 ELSE 0],
           proba |-> ensemble_proba] :
          ensemble_proba \in {[i \in DOMAIN unsupervised_scores |->
              RDiv(RAdd(unsupervised_scores[i], supervised_proba[i]), Two)]} })

\* (unsupervised_scores + supervised_proba) / 2, then (ensemble_proba > 0.5).astype(int)
Blend(unsupervised_scores, supervised_proba) ==
    The({ [pred |-> [i \in DOMAIN ensemble_proba |->
                        IF RGt(ensemble_proba[i], Half) THEN 1 ELSE 0],
           proba |-> ensemble_proba] :
          ensemble_proba \in {[i \in DOMAIN unsupervised_scores |->
              RDiv(RAdd(unsupervised_scores[i], supervised_proba[i]), Two)]} })

\* faulty variant: the classifier is called whatever is_trained says
EnsembleDetector_predict_untested_flag(det, fst, c, trained, raws, sup) ==
    The({ IF IsRaise(unsupervised_scores) THEN [out |-> unsupervised_scores, consulted |-> FALSE]
          ELSE IF IsRaise(supervised_proba) THEN [out |-> supervised_proba, consulted |-> TRUE]
          ELSE [out |-> Return(Blend(unsupervised_scores.value, supervised_proba.value)),
                consulted |-> TRUE] :
          unsupervised_scores \in {AnomalyDetector_predict_proba(det, fst, raws)},
          supervised_proba \in {SupervisedClassifier_predict_proba(c, sup)} })

EnsembleDetector_predict(det, fst, c, trained, raws, sup) ==
    The({ IF IsRaise(unsupervised_scores) THEN [out |-> unsupervised_scores, consulted |-> FALSE]
          ELSE IF IsRaise(unsupervised_pred) THEN [out |-> unsupervised_pred, consulted |-> FALSE]
          ELSE IF trained
          THEN The({ IF IsRaise(supervised_proba)
                     THEN [out |-> supervised_proba, consulted |-> TRUE]
                     ELSE IF IsRaise(supervised_pred)
                     THEN [out |-> supervised_pred, consulted |-> TRUE]
                     ELSE [out |-> Return(Blend(unsupervised_scores.value,
                                                supervised_proba.value)),
                           consulted |-> TRUE] :
                     supervised_proba \in {SupervisedClassifier_predict_proba(c, sup)},
                     supervised_pred \in {SupervisedClassifier_predict(c, sup)} })
          ELSE [out |-> Return([pred |-> unsupervised_pred.value,
                                proba |-> unsupervised_scores.value]),
                consulted |-> FALSE] :
          unsupervised_scores \in {AnomalyDetector_predict_proba(det, fst, raws)},
          unsupervised_pred \in {AnomalyDetector_predict(det, fst, raws)} })

EnsembleDetector_get_model_agreement(trained) ==
    IF ~trained THEN "unsupervised_only" ELSE "ensemble"

EnsembleDetector_detect(det, fst, c, trained, raws, sup) ==
    The({ IF IsRaise(p.out) THEN p
          ELSE [out |-> Return([i \in DOMAIN raws |->
                          [is_anomaly |-> p.out.value.pred[i] # 0,
                           anomaly_score |-> p.out.value.proba[i],
                           severity |-> EnsembleDetector_get_severity(p.out.value.proba[i]),
                           model_agreement |-> EnsembleDetector_get_model_agreement(trained)]]),
                consulted |-> p.consulted] :
          p \in {EnsembleDetector_predict(det, fst, c, trained, raws, sup)} })

----------------------------------------------------------------------------
(* FeaturePipeline: scaler is a StandardScaler object made in __init__.   *)
(* A data frame is 0 (no feature column: extract_features is empty) or    *)
(* the number of a non-empty frame.                                       *)

PipelineScaler == "pipeline.scaler"
ScalerIds == {PipelineScaler}
NewScaler == [fitted |-> FALSE, fit_on |-> 0]
NewFeaturePipeline == [scaler |-> PipelineScaler, fitted |-> FALSE]

\* scaler.fit(features) recomputes mean_ and scale_ of this object from the frame
StandardScaler_fit(sc, df) == [sc EXCEPT !.fitted = TRUE, !.fit_on = df]

FeaturePipeline_fit_transform(pl, scs, df) ==
    IF df = 0
    THEN [pipeline |-> pl, scalers |-> scs, out |-> Return([scaled_by |-> 0, df |-> 0])]
    ELSE [pipeline |-> [pl EXCEPT !.fitted = TRUE],
          scalers |-> [scs EXCEPT ![pl.scaler] = StandardScaler_fit(scs[pl.scaler], df)],
          out |-> Return([scaled_by |-> df, df |-> df])]

----------------------------------------------------------------------------
(* AlertExplainer.  A matrix X is known by its number (0: None).          *)
(* model: ref names the forest object passed to initialize ("None": no    *)
(* model yet, "own": the IsolationForest initialize made itself, kept in  *)
(* own).  An attribution object records what it was built from:           *)
(* TreeExplainer copies the trees of the model as fitted at that time     *)
(* (model_gen); KernelExplainer keeps the background matrix and calls     *)
(* _model_score, that is self.model, when it is queried.                  *)

NoAttribution == [kind |-> "None", model_gen |-> 0, X |-> 0, y_dummy |-> 0]
TreeExplainer(f) == [kind |-> "TreeExplainer", model_gen |-> f.gen, X |-> 0, y_dummy |-> 0]
KernelExplainer(background) ==
    [kind |-> "KernelExplainer", model_gen |-> 0, X |-> background, y_dummy |-> 0]
\* over rf_model, the forest fitted on X_train and the labels y_dummy
SurrogateExplainer(X, y_dummy) ==
    [kind |-> "TreeExplainer(rf_model)", model_gen |-> 0, X |-> X, y_dummy |-> y_dummy]

\* what answered a query: the attribution object and the sample it drew
Samples == {0, 1}
ShapCalls == [ok : BOOLEAN, sample : Samples]
Answer(object, shap) ==
    [object |-> object,
     sample |-> IF object.kind = "KernelExplainer" THEN shap.sample ELSE 0]
NoAnswer == [object |-> NoAttribution, sample |-> 0]

NoModel == [ref |-> "None", own |-> NewForest(DefaultContamination)]

NewAlertExplainer ==
    [explainer |-> NoAttribution, shap_explainer |-> NoAttribution, background_data |-> 0,
     feature_names |-> "none", X_train |-> 0, is_initialized |-> FALSE, model |-> NoModel]

\* the forest self.model denotes
ModelOf(e, fst) == IF e.model.ref = "own" THEN e.model.own ELSE fst[e.model.ref]

\* what the library calls of initialize do: shap.sample, TreeExplainer(model),
\* KernelExplainer(...), and the surrogate block, each may raise
\* and np.random.randint(0, 2, len(X_train)) draws the labels y_dummy from
\* numpy's global generator, which nothing seeds
Labels == {0, 1}
LibOutcomes == [sample : BOOLEAN, tree : BOOLEAN, kernel : BOOLEAN, rf : BOOLEAN,
                y_dummy : Labels]

\* initialize(X_train, feature_names, model); model is a forest id or "None";
\* raws: the raw scores of X_train under the forest initialize fits itself
AlertExplainer_initialize(e, fst, X, names, model, raws, lib) ==
    LET e1 == [e EXCEPT !.feature_names = names, !.X_train = X]
        e2 == [e1 EXCEPT !.background_data = X]
        own == IsolationForest_fit(NewForest(DefaultContamination), raws)
        e3 == IF model # "None"
              THEN [e2 EXCEPT !.model = [ref |-> model, own |-> NewForest(DefaultContamination)]]
              ELSE [e2 EXCEPT !.model = [ref |-> "own", own |-> own.f]]
        m == ModelOf(e3, fst)
        e4 == IF m.fitted /\ lib.tree
              THEN [e3 EXCEPT !.shap_explainer = TreeExplainer(m)]
              ELSE [e3 EXCEPT !.shap_explainer = KernelExplainer(e3.background_data)]
        e5 == IF lib.rf
              THEN [e4 EXCEPT !.explainer = SurrogateExplainer(X, lib.y_dummy)]
              ELSE [e4 EXCEPT !.explainer = e4.shap_explainer]
    IN  IF ~lib.sample THEN [explainer |-> e1, out |-> Raise("Exception: shap.sample")]
        ELSE IF model = "None" /\ IsRaise(own.out)
        THEN [explainer |-> [e2 EXCEPT !.model = [ref |-> "own",
                                                  own |-> NewForest(DefaultContamination)]],
              out |-> own.out]
        ELSE IF ~(m.fitted /\ lib.tree) /\ ~(m.fitted /\ lib.kernel)
        THEN [explainer |-> e3, out |-> Raise("Exception: KernelExplainer")]
        ELSE [explainer |-> [e5 EXCEPT !.is_initialized = TRUE], out |-> Return("self")]

NotInitialized == Raise("ValueError: Explainer not initialized")

\* names = feature_names or self.feature_names
NamesUsed(e, namesArg) == IF namesArg = "none" THEN e.feature_names ELSE namesArg

Attribution(kind, by, e, X, namesArg, fallback) ==
    Return([result |-> kind, by |-> by, names |-> NamesUsed(e, namesArg), X |-> X,
            fallback |-> fallback])

AlertExplainer_fallback_explain(e, X, namesArg) ==
    Attribution("explanations", NoAnswer, e, X, namesArg, TRUE)

\* shap: what the shap_values call of the attribution object does with this
\* matrix: ok, it returns (a matrix the object rejects is rejected at every
\* call); sample, the random sample a KernelExplainer draws from numpy's
\* global generator during the call
AlertExplainer_explain(e, X, namesArg, shap) ==
    IF ~e.is_initialized THEN NotInitialized
    ELSE IF ~shap.ok THEN AlertExplainer_fallback_explain(e, X, namesArg)
    ELSE Attribution("explanations", Answer(e.explainer, shap), e, X, namesArg, FALSE)

AlertExplainer_get_force_plot_data(e, X, namesArg, shap) ==
    IF ~e.is_initialized THEN NotInitialized
    ELSE IF ~shap.ok THEN Attribution("force_plot", NoAnswer, e, X, namesArg, TRUE)
    ELSE Attribution("force_plot", Answer(e.shap_explainer, shap), e, X, namesArg, FALSE)

AlertExplainer_get_waterfall_data(e, X, namesArg, shap) ==
    LET force_data == AlertExplainer_get_force_plot_data(e, X, namesArg, shap)
    IN  IF IsRaise(force_data) THEN force_data
        ELSE Return([force_data.value EXCEPT !.result = "waterfall"])

\* faulty variant: the summary without the is_initialized test
get_summary_plot_data_unguarded(e, X, namesArg, shap) ==
    IF ~shap.ok THEN Attribution("summary", NoAnswer, e, X, namesArg, TRUE)
    ELSE Attribution("summary", Answer(e.shap_explainer, shap), e, X, namesArg, FALSE)

AlertExplainer_get_summary_plot_data(e, X, namesArg, shap) ==
    IF ~e.is_initialized THEN NotInitialized
    ELSE IF ~shap.ok THEN Attribution("summary", NoAnswer, e, X, namesArg, TRUE)
    ELSE Attribution("summary", Answer(e.shap_explainer, shap), e, X, namesArg, FALSE)

AlertExplainer_get_dependence_plot_data(e, X, namesArg, shap) ==
    IF ~e.is_initialized THEN NotInitialized
    ELSE IF ~shap.ok THEN Return([error |-> "Could not compute SHAP values"])
    ELSE Attribution("dependence", Answer(e.shap_explainer, shap), e, X, namesArg, FALSE)

AlertExplainer_get_beeswarm_data(e, X, namesArg, shap) ==
    LET summary_data == AlertExplainer_get_summary_plot_data(e, X, namesArg, shap)
    IN  IF IsRaise(summary_data) THEN summary_data
        ELSE Return([summary_data.value EXCEPT !.result = "beeswarm"])

AlertExplainer_get_global_importance(e, X, namesArg, shap) ==
    LET summary == AlertExplainer_get_summary_plot_data(e, X, namesArg, shap)
    IN  IF IsRaise(summary) THEN summary
        ELSE Return([summary.value EXCEPT !.result = "global_importance"])

AlertExplainer_explain_prediction(e, X, namesArg, shap) ==
    LET waterfall == AlertExplainer_get_waterfall_data(e, X, namesArg, shap)
    IN  IF IsRaise(waterfall) THEN waterfall
        ELSE Return([waterfall.value EXCEPT !.result = "explain_prediction"])

----------------------------------------------------------------------------
(* What the queries of AlertExplainer compute from the attribution matrix  *)
(* the library returns.  A matrix is a sequence of rows, a row a sequence  *)
(* of integers (the floats of the code); a dict is the sequence of its     *)
(* items [name, value] in insertion order (the names of a list are         *)
(* distinct).  Means and percentages are exact rationals in lowest terms.  *)

Abs(x) == IF x < 0 THEN -x ELSE x
Min(a, b) == IF a < b THEN a ELSE b
Front(s) == SubSeq(s, 1, Len(s) - 1)
\* s[:n]
Take(s, n) == SubSeq(s, 1, Min(n, Len(s)))
Reverse(s) == [i \in DOMAIN s |-> s[Len(s) + 1 - i]]

RECURSIVE GCD(_, _)
GCD(a, b) == IF b = 0 THEN a ELSE GCD(b, a % b)
RNorm(r) == IF r.n = 0 THEN Zero
            ELSE LET g == GCD(Abs(r.n), r.d) IN Rat(r.n \div g, r.d \div g)

\* sum(...) of floats
RECURSIVE RSum(_)
RSum(s) == IF s = <<>> THEN Zero ELSE RNorm(RAdd(RSum(Front(s)), s[Len(s)]))

RECURSIVE Sum(_)
Sum(s) == IF s = <<>> THEN 0 ELSE Sum(Front(s)) + s[Len(s)]

\* sorted(..., key=..., reverse=True): the sort is stable, so items with equal
\* keys keep their order; keys[i] is the key of item i
Pos(keys, i) ==
    1 + Cardinality({j \in DOMAIN keys :
                        RGt(keys[j], keys[i]) \/ (REq(keys[j], keys[i]) /\ j < i)})
SortedDesc(items, keys) ==
    [p \in DOMAIN items |-> items[CHOOSE i \in DOMAIN items : Pos(keys, i) = p]]

\* faulty variant: the items sorted by the signed value
SortedBySigned(items) == SortedDesc(items, [i \in DOMAIN items |-> Rat(items[i].value, 1)])

\* sorted(d.items(), key=lambda x: abs(x[1]), reverse=True)
SortedByAbs(items) ==
    SortedDesc(items, [i \in DOMAIN items |-> Rat(Abs(items[i].value), 1)])

\* names = feature_names or self.feature_names: None and [] are both falsy
NamesOr(feature_names, own) == IF feature_names = <<>> THEN own ELSE feature_names

\* str.lower, character by character
UpperCase == "ABCDEFGHIJKLMNOPQRSTUVWXYZ"
LowerCase == "abcdefghijklmnopqrstuvwxyz"
LowerChar(c) ==
    IF \E i \in 1 .. Len(UpperCase) : SubSeq(UpperCase, i, i) = c
    THEN LET i == CHOOSE i \in 1 .. Len(UpperCase) : SubSeq(UpperCase, i, i) = c
         IN  SubSeq(LowerCase, i, i)
    ELSE c
RECURSIVE Lower(_)
Lower(s) == IF Len(s) = 0 THEN ""
            ELSE Lower(SubSeq(s, 1, Len(s) - 1)) \o LowerChar(SubSeq(s, Len(s), Len(s)))

\* sub in s
Contains(s, sub) ==
    \E i \in 1 .. Len(s) - Len(sub) + 1 : SubSeq(s, i, i + Len(sub) - 1) = sub

\* f"{abs(value):.2f}" of a whole number
TwoDecimals(v) == ToString(v) \o ".00"

\* faulty variant: the rate/count rule is tried before the failure/error rule
Phrase_rate_first(feature, value) ==
    LET direction == IF value > 0 THEN "elevated" ELSE "depressed"
        lower == Lower(feature)
    IN  IF Contains(lower, "rate") \/ Contains(lower, "count")
        THEN feature \o " is " \o direction
        ELSE IF Contains(lower, "failure") \/ Contains(lower, "error")
        THEN feature \o " is " \o direction \o " (" \o TwoDecimals(Abs(value)) \o " std)"
        ELSE IF Contains(lower, "time")
        THEN "response " \o direction
        ELSE feature \o ": " \o direction

\* the body of the loop of _generate_natural_language
Phrase(feature, value) ==
    LET direction == IF value > 0 THEN "elevated" ELSE "depressed"
        lower == Lower(feature)
    IN  IF Contains(lower, "failure") \/ Contains(lower, "error")
        THEN feature \o " is " \o direction \o " (" \o TwoDecimals(Abs(value)) \o " std)"
        ELSE IF Contains(lower, "rate") \/ Contains(lower, "count")
        THEN feature \o " is " \o direction
        ELSE IF Contains(lower, "time")
        THEN "response " \o direction
        ELSE feature \o ": " \o direction

\* _generate_natural_language
AlertExplainer_generate_natural_language(top_features) ==
    IF top_features = <<>> THEN "No significant features found."
    ELSE LET first == Take(top_features, 3)
             explanations == [k \in DOMAIN first |-> Phrase(first[k].name, first[k].value)]
         IN  IF Len(explanations) >= 2
             THEN "This alert fired because: " \o explanations[1] \o ", " \o explanations[2]
             ELSE "This alert fired because: " \o explanations[1]

TopFeatures == 5

\* the loop of explain over the rows of X, given shap_values
Explanations(names, X, shap_values) ==
    IF X # <<>> /\ Len(names) > Len(shap_values[1]) THEN Raise("IndexError")
    ELSE Return([i \in DOMAIN X |->
            LET contributions == [j \in DOMAIN names |->
                                     [name |-> names[j], value |-> shap_values[i][j]]]
                sorted_contrib == SortedByAbs(contributions)
            IN  [alert_id |-> i - 1,
                 shap_values |-> contributions,
                 top_features |-> Take(sorted_contrib, TopFeatures),
                 explanation |-> AlertExplainer_generate_natural_language(
                                     Take(sorted_contrib, TopFeatures))]])

\* _fallback_explain
FallbackExplanations(names, X) ==
    IF X # <<>> /\ Len(names) > Len(X[1]) THEN Raise("IndexError")
    ELSE Return([i \in DOMAIN X |->
            LET feature_values == [j \in DOMAIN names |->
                                      [name |-> names[j], value |-> X[i][j]]]
                sorted_features == SortedByAbs(feature_values)
            IN  [alert_id |-> i - 1,
                 feature_values |-> feature_values,
                 top_features |-> Take(sorted_features, TopFeatures),
                 explanation |-> AlertExplainer_generate_natural_language(
                                     Take(sorted_features, TopFeatures))]])

\* explain after the is_initialized test; shap: what self.explainer.shap_values(X)
\* does (ok: it returns; values: the matrix it returns)
ExplainData(own_names, feature_names, X, shap) ==
    LET names == NamesOr(feature_names, own_names)
    IN  IF shap.ok THEN Explanations(names, X, shap.values)
        ELSE FallbackExplanations(names, X)

\* get_force_plot_data with idx = 0 after the is_initialized test; base: expected_value
ForcePlotData(own_names, feature_names, X, shap) ==
    LET names == NamesOr(feature_names, own_names)
        single_x == X[1]
        shap_values == IF shap.ok THEN shap.values[1] ELSE [j \in DOMAIN names |-> 0]
        base_value == IF shap.ok THEN shap.base ELSE Half
    IN  Return([base_value |-> base_value,
                shap_values |-> shap_values,
                feature_names |-> names,
                feature_values |-> single_x,
                prediction |-> RNorm(RAdd(Rat(Sum(shap_values), 1), base_value))])

WaterfallCap == 15

\* faulty variant: the features are left in schema order
WaterfallData_unsorted(force_data) ==
    LET n == Min(Len(force_data.feature_names),
                 Min(Len(force_data.shap_values), Len(force_data.feature_values)))
        features_data == [i \in 1 .. n |->
                             [feature |-> force_data.feature_names[i],
                              shap_value |-> force_data.shap_values[i],
                              feature_value |-> force_data.feature_values[i],
                              abs_shap |-> Abs(force_data.shap_values[i])]]
    IN  Return([base_value |-> force_data.base_value,
                prediction |-> force_data.prediction,
                features |-> Take(features_data, WaterfallCap)])

\* get_waterfall_data, from the force plot data
WaterfallData(force_data) ==
    LET n == Min(Len(force_data.feature_names),
                 Min(Len(force_data.shap_values), Len(force_data.feature_values)))
        features_data == [i \in 1 .. n |->
                             [feature |-> force_data.feature_names[i],
                              shap_value |-> force_data.shap_values[i],
                              feature_value |-> force_data.feature_values[i],
                              abs_shap |-> Abs(force_data.shap_values[i])]]
        sorted == SortedDesc(features_data,
                             [i \in 1 .. n |-> Rat(features_data[i].abs_shap, 1)])
    IN  Return([base_value |-> force_data.base_value,
                prediction |-> force_data.prediction,
                features |-> Take(sorted, WaterfallCap)])

SummaryCap == 15

\* get_summary_plot_data after the is_initialized test
SummaryPlotData(own_names, feature_names, X, shap) ==
    LET names == NamesOr(feature_names, own_names)
        shap_values == IF shap.ok THEN shap.values
                       ELSE [i \in DOMAIN X |-> [j \in DOMAIN X[i] |-> 0]]
        width == Len(shap_values[1])
        mean_abs_shap == [j \in 1 .. width |->
                             RNorm(Rat(Sum([i \in DOMAIN shap_values |->
                                               Abs(shap_values[i][j])]),
                                       Len(shap_values)))]
        importance == [i \in DOMAIN names |-> [name |-> names[i], value |-> mean_abs_shap[i]]]
        sorted_importance == SortedDesc(importance, [i \in DOMAIN names |-> mean_abs_shap[i]])
    IN  IF Len(names) > width THEN Raise("IndexError")
        ELSE Return([feature_importance |-> importance,
                     top_features |-> Take(sorted_importance, SummaryCap),
                     shap_values |-> shap_values,
                     feature_shap_data |->
                         [i \in DOMAIN names |->
                             [name |-> names[i],
                              shap_values |-> [r \in DOMAIN shap_values |-> shap_values[r][i]],
                              feature_values |-> [r \in DOMAIN X |-> X[r][i]],
                              mean_abs_shap |-> mean_abs_shap[i]]]])

Hundred == Rat(100, 1)

\* sum(v for k, v in sorted_features[:3])
TopThreeContribution(sorted_features) ==
    RSum([k \in DOMAIN Take(sorted_features, 3) |-> sorted_features[k].value])

\* get_global_importance, from the summary
GlobalImportance(summary) ==
    LET importance == summary.feature_importance
        total_importance == RSum([i \in DOMAIN importance |-> importance[i].value])
        normalized_importance ==
            [i \in DOMAIN importance |->
                [name |-> importance[i].name,
                 value |-> IF RGt(total_importance, Zero)
                           THEN RNorm(RMul(RDiv(importance[i].value, total_importance),
                                           Hundred))
                           ELSE Zero]]
        sorted_features ==
            SortedDesc(normalized_importance,
                       [i \in DOMAIN importance |-> normalized_importance[i].value])
    IN  Return([absolute_importance |-> importance,
                relative_importance |-> normalized_importance,
                ranked_features |-> sorted_features,
                top_3_contribution |-> TopThreeContribution(sorted_features)])

----------------------------------------------------------------------------
(* AlertManager.  alert_id is "ALERT-<counter, six digits or more>-<date>": *)
(* the pair of the counter and the day.  The clock counts ticks, and a    *)
(* day has TicksPerDay of them.                                           *)

TicksPerDay == 2
Today(now) == now \div TicksPerDay

AlertId(counter, now) == [counter |-> counter, day |-> Today(now)]

\* Alert.__init__
NewAlert(alert_id, severity, title, description, now, source, metadata) ==
    [alert_id |-> alert_id, severity |-> severity, title |-> title,
     description |-> description, timestamp |-> now, source |-> source,
     metadata |-> IF metadata = "None" THEN "{}" ELSE metadata,
     status |-> "NEW", explanation |-> "None", shap_values |-> "None"]

NewAlertManager == [alerts |-> <<>>, alert_counter |-> 0]

\* faulty variant: the alert is created with the severity as its status
create_alert_status_from_severity(m, severity, title, description, source, metadata, now) ==
    LET alert == [NewAlert(AlertId(m.alert_counter + 1, now), severity, title, description,
                           now, source, metadata) EXCEPT !.status = severity]
    IN  [manager |-> [alerts |-> Append(m.alerts, alert),
                      alert_counter |-> m.alert_counter + 1],
         out |-> Return(alert)]

AlertManager_create_alert(m, severity, title, description, source, metadata, now) ==
    LET alert_counter == m.alert_counter + 1
        alert_id == AlertId(alert_counter, now)
        alert == NewAlert(alert_id, severity, title, description, now, source, metadata)
    IN  [manager |-> [alerts |-> Append(m.alerts, alert), alert_counter |-> alert_counter],
         out |-> Return(alert)]

\* the first stored alert with this id, 0 when there is none
FirstWithId(alerts, alert_id) ==
    IF \E i \in DOMAIN alerts : alerts[i].alert_id = alert_id
    THEN CHOOSE i \in DOMAIN alerts :
             /\ alerts[i].alert_id = alert_id
             /\ \A j \in 1 .. i - 1 : alerts[j].alert_id # alert_id
    ELSE 0

\* faulty variant: every stored alert gets the status
update_status_of_all(m, alert_id, status) ==
    IF FirstWithId(m.alerts, alert_id) = 0 THEN [manager |-> m, out |-> Return(FALSE)]
    ELSE [manager |-> [m EXCEPT !.alerts = [i \in DOMAIN m.alerts |->
                                               [m.alerts[i] EXCEPT !.status = status]]],
          out |-> Return(TRUE)]

AlertManager_update_status(m, alert_id, status) ==
    LET i == FirstWithId(m.alerts, alert_id)
    IN  IF i = 0 THEN [manager |-> m, out |-> Return(FALSE)]
        ELSE [manager |-> [m EXCEPT !.alerts[i].status = status], out |-> Return(TRUE)]

\* add_explanation
AlertManager_add_explanation(m, alert_id, explanation, shap_values) ==
    LET i == FirstWithId(m.alerts, alert_id)
    IN  IF i = 0 THEN [manager |-> m, out |-> Return(FALSE)]
        ELSE [manager |-> [m EXCEPT !.alerts[i].explanation = explanation,
                                    !.alerts[i].shap_values = shap_values],
              out |-> Return(TRUE)]

\* datetime.isoformat and datetime.fromisoformat: the text of a datetime
IsoFormat(timestamp) == [iso |-> timestamp]
FromIsoFormat(text) == text.iso

\* Alert.to_dict; the timestamp of a stored alert is a datetime
Alert_to_dict(a) ==
    [alert_id |-> a.alert_id, severity |-> a.severity, title |-> a.title,
     description |-> a.description, timestamp |-> IsoFormat(a.timestamp),
     source |-> a.source, metadata |-> a.metadata, status |-> a.status,
     explanation |-> a.explanation, shap_values |-> a.shap_values]

\* Alert.from_dict of a dict that has every key; the constructor is called
\* without source and without timestamp
Alert_from_dict(data, now) ==
    [NewAlert(data.alert_id, data.severity, data.title, data.description, now,
              "anomaly_detector", data.metadata)
        EXCEPT !.status = data.status,
               !.explanation = data.explanation,
               !.shap_values = data.shap_values,
               !.timestamp = FromIsoFormat(data.timestamp)]

\* None and the empty string are falsy
Truthy(x) == x \notin {"None", ""}

\* s[:limit]
UpTo(s, limit) == IF limit >= 0 THEN Take(s, limit)
                  ELSE SubSeq(s, 1, IF Len(s) + limit > 0 THEN Len(s) + limit ELSE 0)

\* faulty variant: the limit is applied before the sort
get_alerts_cut_first(m, severity, status, limit) ==
    LET by_severity == IF Truthy(severity)
                       THEN SelectSeq(m.alerts, LAMBDA a : a.severity = severity)
                       ELSE m.alerts
        filtered == IF Truthy(status)
                    THEN SelectSeq(by_severity, LAMBDA a : a.status = status)
                    ELSE by_severity
        cut == UpTo(filtered, limit)
        sorted == SortedDesc(cut, [i \in DOMAIN cut |-> Rat(cut[i].timestamp, 1)])
    IN  [manager |-> m, out |-> Return([k \in DOMAIN sorted |-> Alert_to_dict(sorted[k])])]

AlertManager_get_alerts(m, severity, status, limit) ==
    LET by_severity == IF Truthy(severity)
                       THEN SelectSeq(m.alerts, LAMBDA a : a.severity = severity)
                       ELSE m.alerts
        filtered == IF Truthy(status)
                    THEN SelectSeq(by_severity, LAMBDA a : a.status = status)
                    ELSE by_severity
        sorted == SortedDesc(filtered,
                             [i \in DOMAIN filtered |-> Rat(filtered[i].timestamp, 1)])
        cut == UpTo(sorted, limit)
    IN  [manager |-> m, out |-> Return([k \in DOMAIN cut |-> Alert_to_dict(cut[k])])]

\* the keys by_severity and by_status start with, and a dict as the function
\* from its keys to its values
SeverityKeys == {"CRITICAL", "HIGH", "MEDIUM", "LOW"}
AlertStatus == {"NEW", "INVESTIGATING", "CONFIRMED", "FALSE_POSITIVE", "RESOLVED"}
Count(alerts, field, value) == Cardinality({i \in DOMAIN alerts : alerts[i][field] = value})
Tally(alerts, field, keys) ==
    [k \in keys \cup {alerts[i][field] : i \in DOMAIN alerts} |-> Count(alerts, field, k)]
Get(d, k) == IF k \in DOMAIN d THEN d[k] ELSE 0

\* faulty variant: only the alerts with status NEW count as unresolved
get_statistics_new_only(m) ==
    LET by_status == Tally(m.alerts, "status", AlertStatus)
    IN  [manager |-> m,
         out |-> Return([total_alerts |-> Len(m.alerts),
                         by_severity |-> Tally(m.alerts, "severity", SeverityKeys),
                         by_status |-> by_status,
                         unresolved |-> Get(by_status, "NEW")])]

AlertManager_get_statistics(m) ==
    LET total == Len(m.alerts)
        by_severity == Tally(m.alerts, "severity", SeverityKeys)
        by_status == Tally(m.alerts, "status", AlertStatus)
    IN  [manager |-> m,
         out |-> Return([total_alerts |-> total,
                         by_severity |-> by_severity,
                         by_status |-> by_status,
                         unresolved |-> Get(by_status, "NEW") + Get(by_status, "INVESTIGATING")])]

\* json.dump(..., default=str) and json.load of a list of alert dicts: their
\* values are strings and None, which JSON text holds as they are
JsonDump(dicts) == [exists |-> TRUE, data |-> [k \in DOMAIN dicts |-> [json |-> dicts[k]]]]
JsonLoad(file) == [k \in DOMAIN file.data |-> file.data[k].json]

\* export_json: the file it writes
AlertManager_export_json(m) == JsonDump([k \in DOMAIN m.alerts |-> Alert_to_dict(m.alerts[k])])

\* import_json; open raises when there is no file
AlertManager_import_json(m, file, now) ==
    IF ~file.exists THEN [manager |-> m, out |-> Raise("FileNotFoundError")]
    ELSE LET data == JsonLoad(file)
         IN  [manager |-> [m EXCEPT !.alerts = [k \in DOMAIN data |-> Alert_from_dict(data[k], now)]],
              out |-> Return("None")]

----------------------------------------------------------------------------
(* The threat-intelligence clients.  Time is in minutes.  A lookup result  *)
(* is known by the source that produced it and its abuse_confidence_score; *)
(* NoData is None.  A cache maps an IP to the result and its timestamp.    *)

\* cache_ttl = 3600 seconds
CacheTtl == 60
\* cache_duration = timedelta(hours=1)
CacheDuration == 60

PrivateIp == "10.0.0.1"
malicious_ips == {"185.220.101.1"}
IPs == {PrivateIp} \cup malicious_ips

NoData == [source |-> "None", score |-> 0]
Result(source, score) == [source |-> source, score |-> score]
NoEntry == [set |-> FALSE, data |-> NoData, at |-> 0]
Entry(data, t) == [set |-> TRUE, data |-> data, at |-> t]
NoCache == [ip \in IPs |-> NoEntry]

(* ThreatIntelligenceClient (src/threat_intel/client.py) *)

NewThreatIntelligenceClient(api_key) == [api_key |-> api_key, cache |-> NoCache]

\* _get_cache: the cached result while time.time() - timestamp < cache_ttl, else None
ThreatIntelligenceClient_get_cache(c, key, t) ==
    IF c.cache[key].set /\ t - c.cache[key].at < CacheTtl THEN c.cache[key].data ELSE NoData

ThreatIntelligenceClient_set_cache(c, key, value, t) ==
    [c EXCEPT !.cache[key] = Entry(value, t)]

\* What requests.get gives _make_request: a status, or an exception; a body of
\* status 200 is the JSON document, with or without the key "data".
Statuses == {"200", "429", "500", "exception"}
NoBody == [json |-> FALSE, data |-> FALSE, score |-> 0]
Bodies == {[json |-> TRUE, data |-> TRUE, score |-> 90], [json |-> TRUE, data |-> FALSE, score |-> 0]}

\* A check_ip call and its _make_request call: depth counts the frames of
\* _make_request on the stack, one per retry; phase says where the innermost
\* frame is (in requests.get, in time.sleep(60), or returning value to its
\* caller); out is what the latest check_ip returned.
NoRequest == [phase |-> "idle", depth |-> 0, ip |-> "None", value |-> NoBody, out |-> NoData]

\* faulty variant: the retry as a loop in the same frame
Recurse_in_place(depth) == depth

\* return self._make_request(endpoint, params): one more frame
Recurse(depth) == depth + 1

\* the first frame: None at once without an api key, else requests.get is called
ThreatIntelligenceClient_make_request(c, ip) ==
    IF ~c.api_key
    THEN [phase |-> "return", depth |-> 1, ip |-> ip, value |-> NoBody, out |-> NoData]
    ELSE [phase |-> "get", depth |-> 1, ip |-> ip, value |-> NoBody, out |-> NoData]

\* requests.get has answered the innermost frame
MakeRequest_response(r, status, body) ==
    IF status = "429" THEN [r EXCEPT !.phase = "sleep"]
    ELSE IF status = "200" THEN [r EXCEPT !.phase = "return", !.value = body]
    ELSE [r EXCEPT !.phase = "return", !.value = NoBody]

\* time.sleep(60) is over: the frame calls _make_request again inside its try.
\* The interpreter raises RecursionError at a call beyond its recursion limit;
\* RecursionError is an Exception, so the except clause of the frame returns None.
MakeRequest_retry(r) ==
    IF Recurse(r.depth) > RecursionLimit
    THEN [r EXCEPT !.phase = "return", !.value = NoBody]
    ELSE [r EXCEPT !.phase = "get", !.depth = Recurse(r.depth)]

\* a frame of a retry returns: its caller returns the same value
MakeRequest_return(r) == [r EXCEPT !.depth = r.depth - 1]

\* _parse_ip_response
ThreatIntelligenceClient_parse_ip_response(body) == Result("abuseipdb", body.score)

\* check_ip up to the request: a cached result that is truthy is returned
\* (the cache key "check_<ip>" is known by the ip)
ThreatIntelligenceClient_check_ip_cached(c, ip, t) ==
    ThreatIntelligenceClient_get_cache(c, ip, t)

\* check_ip after the request: a document with "data" is parsed, cached and
\* returned; anything else gives None
ThreatIntelligenceClient_check_ip_data(c, ip, body, t) ==
    IF body.json /\ body.data
    THEN LET result == ThreatIntelligenceClient_parse_ip_response(body)
         IN  [client |-> ThreatIntelligenceClient_set_cache(c, ip, result, t),
              out |-> result]
    ELSE [client |-> c, out |-> NoData]

(* ThreatIntelClient (src/ingestion/threat_client.py) *)

NewThreatIntelClient(abuseipdb_key, virustotal_key) ==
    [abuseipdb_key |-> abuseipdb_key, virustotal_key |-> virustotal_key, cache |-> NoCache]

\* what the two services answer (None: no status 200, or an exception) and the
\* draw of random.randint for the simulated score
ApiResults(source) == {NoData, Result(source, 90)}
Draws == {0, 1}
Networks == [virustotal : ApiResults("virustotal"), abuseipdb : ApiResults("abuseipdb"),
             draw : Draws]

\* _simulated_ip_check: 0 for a private address, random.randint(60, 100) for an
\* address of malicious_ips, random.randint(0, 5) for any other
ThreatIntelClient_simulated_ip_check(ip, draw) ==
    IF ip = PrivateIp THEN Result("simulated", 0)
    ELSE IF ip \in malicious_ips THEN Result("simulated", 60 + 40 * draw)
    ELSE Result("simulated", 5 * draw)

\* check_ip; fresh: the result was not taken from the cache
ThreatIntelClient_check_ip(c, ip, t, net) ==
    LET virustotal == IF c.virustotal_key THEN net.virustotal ELSE NoData
        abuseipdb == net.abuseipdb
    IN  IF c.cache[ip].set /\ t - c.cache[ip].at < CacheDuration
        THEN [client |-> c, out |-> c.cache[ip].data, fresh |-> FALSE]
        ELSE IF c.virustotal_key /\ virustotal # NoData
        THEN [client |-> [c EXCEPT !.cache[ip] = Entry(virustotal, t)],
              out |-> virustotal, fresh |-> TRUE]
        ELSE IF c.abuseipdb_key /\ abuseipdb # NoData
        THEN [client |-> [c EXCEPT !.cache[ip] = Entry(abuseipdb, t)],
              out |-> abuseipdb, fresh |-> TRUE]
        ELSE [client |-> c, out |-> ThreatIntelClient_simulated_ip_check(ip, net.draw),
              fresh |-> TRUE]

----------------------------------------------------------------------------
(* The objects as constructed, and the globals of app.py as the module    *)
(* sets them: X_scaled is the matrix of the latest fit, numbered by that  *)
(* fit (0: None); available_features is "none" when the list is empty.    *)

InitExplainer ==
    /\ explainer = NewAlertExplainer
    /\ pipeline = NewFeaturePipeline
    /\ scalers = [id \in ScalerIds |-> NewScaler]

NewApp == [simulator |-> FALSE, X_scaled |-> 0, available_features |-> "none",
           shap_initialized |-> FALSE]

InitApp == app = NewApp

----------------------------------------------------------------------------
(* Calls on the scorers.  Every call leaves its outcome in ret.           *)

\* the IsolationForest objects that live from one call to the next
ForestIds == {DetectorForest}

Call(op, X, sup, out, consulted) ==
    [op |-> op, X |-> X, sup |-> sup, out |-> out, consulted |-> consulted]
NoCall == Call("none", <<>>, <<>>, Return("none"), FALSE)

\* no call is under way: the caller has taken the outcome of the last one
Idle == ret.op = "none"

\* the caller takes the outcome
TakeOutcome ==
    /\ ~Idle
    /\ ret' = NoCall
    /\ UNCHANGED <<forest, detector, classifier, is_trained, sevVars, explVars, appVars, restVars>>

InitRepro ==
    /\ twin = NewAlertExplainer
    /\ prev = NoCall

InitAlerts ==
    /\ manager = NewAlertManager
    /\ clock = 0

\* the explainer whose attributions are computed, before initialize; and no
\* computation under way
NoShap == [ok |-> FALSE, values |-> <<>>, base |-> Zero]
NoInputs == [is_initialized |-> FALSE, feature_names |-> <<>>]
NoResult == [op |-> "none", names_arg |-> <<>>, X |-> <<>>, shap |-> NoShap,
             out |-> Return(<<>>), degraded |-> FALSE]

InitAttr ==
    /\ inp = NoInputs
    /\ res = NoResult

\* no file has been written
NoFile == [exists |-> FALSE, data |-> <<>>]
NoDisk == [alerts |-> NoFile, detector |-> NoFile, classifier |-> NoFile]
InitIo ==
    /\ disk = NoDisk
    /\ minute = 0
    /\ intel = NewThreatIntelligenceClient(FALSE)
    /\ req = NoRequest
    /\ lookup = NewThreatIntelClient(FALSE, FALSE)
    /\ answered = NoCache

InitRest == InitRepro /\ InitAlerts /\ InitAttr /\ InitIo

InitScorers ==
    /\ forest = [id \in ForestIds |-> NewForest(DefaultContamination)]
    /\ detector = NewAnomalyDetector(DefaultContamination)
    /\ classifier = NewSupervisedClassifier
    /\ is_trained = FALSE
    /\ ret = NoCall

InitSeverity ==
    /\ sevA = NoSeverity
    /\ sevE = NoSeverity

\* EnsembleDetector.fit_unsupervised -> AnomalyDetector.fit
fit_unsupervised(raws, names) ==
    /\ Idle
    /\ forest[detector.isolation_forest].gen < MaxFits
    /\ LET r == AnomalyDetector_fit(detector, forest, raws, names)
       IN  /\ detector' = r.detector
           /\ forest' = r.forest
           /\ ret' = Call("EnsembleDetector.fit_unsupervised", raws, <<>>, r.out, FALSE)
    /\ UNCHANGED <<classifier, is_trained, sevVars, explVars, appVars, restVars>>

\* EnsembleDetector.fit_supervised -> SupervisedClassifier.fit; is_trained only when it returns
fit_supervised(names, splitOk) ==
    /\ Idle
    /\ LET r == SupervisedClassifier_fit(classifier, names, splitOk)
       IN  /\ classifier' = r.classifier
           /\ is_trained' = IF IsRaise(r.out) THEN is_trained ELSE TRUE
           /\ ret' = Call("EnsembleDetector.fit_supervised", <<>>, <<>>, r.out, FALSE)
    /\ UNCHANGED <<forest, detector, sevVars, explVars, appVars, restVars>>

Query(op, X, sup, out, consulted) ==
    /\ Idle
    /\ ret' = Call(op, X, sup, out, consulted)
    /\ UNCHANGED <<forest, detector, classifier, is_trained, sevVars, explVars, appVars, restVars>>

CallAD_predict(raws) ==
    Query("AnomalyDetector.predict", raws, <<>>,
          AnomalyDetector_predict(detector, forest, raws), FALSE)
CallAD_predict_proba(raws) ==
    Query("AnomalyDetector.predict_proba", raws, <<>>,
          AnomalyDetector_predict_proba(detector, forest, raws), FALSE)
CallAD_detect(raws) ==
    Query("AnomalyDetector.detect", raws, <<>>,
          AnomalyDetector_detect(detector, forest, raws), FALSE)

CallSC_predict(sup) ==
    Query("SupervisedClassifier.predict", <<>>, sup,
          SupervisedClassifier_predict(classifier, sup), TRUE)
CallSC_predict_proba(sup) ==
    Query("SupervisedClassifier.predict_proba", <<>>, sup,
          SupervisedClassifier_predict_proba(classifier, sup), TRUE)
CallSC_evaluate(sup) ==
    Query("SupervisedClassifier.evaluate", <<>>, sup,
          SupervisedClassifier_evaluate(classifier, sup), TRUE)
CallSC_get_feature_importance ==
    Query("SupervisedClassifier.get_feature_importance", <<>>, <<>>,
          SupervisedClassifier_get_feature_importance(classifier), TRUE)

CallED_predict(raws, sup) ==
    LET r == EnsembleDetector_predict(detector, forest, classifier, is_trained, raws, sup)
    IN  Query("EnsembleDetector.predict", raws, sup, r.out, r.consulted)
CallED_detect(raws, sup) ==
    LET r == EnsembleDetector_detect(detector, forest, classifier, is_trained, raws, sup)
    IN  Query("EnsembleDetector.detect", raws, sup, r.out, r.consulted)

AllSupBatches == UNION {SupBatches(k) : k \in 0 .. MaxBatch}

InitScore == InitScorers /\ InitSeverity /\ InitExplainer /\ InitApp /\ InitRest
NextScore ==
    \/ Idle /\ \E raws \in Batches : fit_unsupervised(raws, "schemaA")
    \/ Idle /\ \E splitOk \in BOOLEAN : fit_supervised("schemaA", splitOk)
    \/ Idle /\ \E raws \in Batches : CallAD_predict(raws)
    \/ Idle /\ \E raws \in Batches : CallAD_predict_proba(raws)
    \/ Idle /\ \E raws \in Batches : CallAD_detect(raws)
    \/ Idle /\ \E sup \in AllSupBatches : CallSC_predict(sup)
    \/ Idle /\ \E sup \in AllSupBatches : CallSC_predict_proba(sup)
    \/ Idle /\ \E sup \in AllSupBatches : CallSC_evaluate(sup)
    \/ CallSC_get_feature_importance
    \/ Idle /\ \E raws \in Batches : \E sup \in SupBatches(Len(raws)) : CallED_predict(raws, sup)
    \/ Idle /\ \E raws \in Batches : \E sup \in SupBatches(Len(raws)) : CallED_detect(raws, sup)
    \/ TakeOutcome

----------------------------------------------------------------------------
(* Calls on the explainer and on the feature pipeline.                    *)

\* the matrices and frames a caller passes: one per fit, and one more
Matrices == 1 .. MaxFits
NamesArgs == {"none", "schemaB"}
\* the matrix a query is about, and the raw scores of a training matrix
\* (no row, or one row)
QueryMatrix == MaxFits
TrainRaws == {<<>>, <<-1>>}

CallFP_fit_transform(df) ==
    /\ LET r == FeaturePipeline_fit_transform(pipeline, scalers, df)
       IN  /\ pipeline' = r.pipeline
           /\ scalers' = r.scalers
           /\ ret' = Call("FeaturePipeline.fit_transform", df, <<>>, r.out, FALSE)
    /\ UNCHANGED <<forest, detector, classifier, is_trained, sevVars, explainer, appVars, restVars>>

CallAE_initialize(X, names, model, raws, lib) ==
    /\ LET r == AlertExplainer_initialize(explainer, forest, X, names, model, raws, lib)
       IN  /\ explainer' = r.explainer
           /\ ret' = Call("AlertExplainer.initialize", X, <<>>, r.out, FALSE)
    /\ UNCHANGED <<forest, detector, classifier, is_trained, sevVars, pipeline, scalers, appVars, restVars>>

CallAE_explain(X, namesArg, shap) ==
    Query("AlertExplainer.explain", X, <<namesArg, shap.ok>>,
          AlertExplainer_explain(explainer, X, namesArg, shap), FALSE)

CallAE_get_force_plot_data(X, namesArg, shap) ==
    Query("AlertExplainer.get_force_plot_data", X, <<namesArg, shap.ok>>,
          AlertExplainer_get_force_plot_data(explainer, X, namesArg, shap), FALSE)

CallAE_get_waterfall_data(X, namesArg, shap) ==
    Query("AlertExplainer.get_waterfall_data", X, <<namesArg, shap.ok>>,
          AlertExplainer_get_waterfall_data(explainer, X, namesArg, shap), FALSE)

CallAE_get_summary_plot_data(X, namesArg, shap) ==
    Query("AlertExplainer.get_summary_plot_data", X, <<namesArg, shap.ok>>,
          AlertExplainer_get_summary_plot_data(explainer, X, namesArg, shap), FALSE)

CallAE_get_dependence_plot_data(X, namesArg, shap) ==
    Query("AlertExplainer.get_dependence_plot_data", X, <<namesArg, shap.ok>>,
          AlertExplainer_get_dependence_plot_data(explainer, X, namesArg, shap), FALSE)

CallAE_get_beeswarm_data(X, namesArg, shap) ==
    Query("AlertExplainer.get_beeswarm_data", X, <<namesArg, shap.ok>>,
          AlertExplainer_get_beeswarm_data(explainer, X, namesArg, shap), FALSE)

CallAE_get_global_importance(X, namesArg, shap) ==
    Query("AlertExplainer.get_global_importance", X, <<namesArg, shap.ok>>,
          AlertExplainer_get_global_importance(explainer, X, namesArg, shap), FALSE)

CallAE_explain_prediction(X, namesArg, shap) ==
    Query("AlertExplainer.explain_prediction", X, <<namesArg, shap.ok>>,
          AlertExplainer_explain_prediction(explainer, X, namesArg, shap), FALSE)

ExplainerQueries ==
    {"AlertExplainer.explain", "AlertExplainer.get_force_plot_data",
     "AlertExplainer.get_waterfall_data", "AlertExplainer.get_summary_plot_data",
     "AlertExplainer.get_dependence_plot_data", "AlertExplainer.get_beeswarm_data",
     "AlertExplainer.get_global_importance", "AlertExplainer.explain_prediction"}

InitExpl == InitScorers /\ InitSeverity /\ InitExplainer /\ InitApp /\ InitRest

\* the calls of this specification with one value of every random draw
OneLabelling == {lib \in LibOutcomes : lib.y_dummy = 0}
OneSample == {shap \in ShapCalls : shap.sample = 0}

NextExpl ==
    \/ Idle /\ \E raws \in TrainRaws : fit_unsupervised(raws, "schemaA")
    \/ Idle /\ \E df \in 0 .. MaxFits : CallFP_fit_transform(df)
    \/ Idle /\ \E X \in Matrices, lib \in OneLabelling :
           CallAE_initialize(X, "schemaA", DetectorForest, <<>>, lib)
    \/ Idle /\ \E X \in Matrices, raws \in TrainRaws, lib \in OneLabelling :
           CallAE_initialize(X, "schemaA", "None", raws, lib)
    \/ Idle /\ \E X \in {QueryMatrix}, n \in NamesArgs, shap \in OneSample :
           CallAE_explain(X, n, shap)
    \/ Idle /\ \E X \in {QueryMatrix}, n \in NamesArgs, shap \in OneSample :
           CallAE_get_force_plot_data(X, n, shap)
    \/ Idle /\ \E X \in {QueryMatrix}, n \in NamesArgs, shap \in OneSample :
           CallAE_get_waterfall_data(X, n, shap)
    \/ Idle /\ \E X \in {QueryMatrix}, n \in NamesArgs, shap \in OneSample :
           CallAE_get_summary_plot_data(X, n, shap)
    \/ Idle /\ \E X \in {QueryMatrix}, n \in NamesArgs, shap \in OneSample :
           CallAE_get_dependence_plot_data(X, n, shap)
    \/ Idle /\ \E X \in {QueryMatrix}, n \in NamesArgs, shap \in OneSample :
           CallAE_get_beeswarm_data(X, n, shap)
    \/ Idle /\ \E X \in {QueryMatrix}, n \in NamesArgs, shap \in OneSample :
           CallAE_get_global_importance(X, n, shap)
    \/ Idle /\ \E X \in {QueryMatrix}, n \in NamesArgs, shap \in OneSample :
           CallAE_explain_prediction(X, n, shap)
    \/ TakeOutcome

----------------------------------------------------------------------------
(* Two AlertExplainer objects side by side, and the last two calls.       *)

\* both objects are initialized with the same X_train, feature_names and
\* model=None, so every library call gets the same arguments and does the
\* same in both, except the draw of y_dummy, which is y2 in the second
initialize_twins(X, raws, lib, y2) ==
    /\ LET r1 == AlertExplainer_initialize(explainer, forest, X, "schemaA", "None", raws, lib)
           r2 == AlertExplainer_initialize(twin, forest, X, "schemaA", "None", raws,
                                           [lib EXCEPT !.y_dummy = y2])
       IN  /\ explainer' = r1.explainer
           /\ twin' = r2.explainer
           /\ ret' = Call("AlertExplainer.initialize", X, <<>>, r1.out, FALSE)
    /\ UNCHANGED <<forest, detector, classifier, is_trained, sevVars, pipeline, scalers,
                   appVars, prev, alertVars, attrVars, ioVars>>

\* explain on the second object
CallTwin_explain(X, namesArg, shap) ==
    Query("twin.explain", X, <<namesArg, shap.ok>>,
          AlertExplainer_explain(twin, X, namesArg, shap), FALSE)

\* the caller takes the outcome and keeps it
Remember ==
    /\ ~Idle
    /\ prev' = ret
    /\ ret' = NoCall
    /\ UNCHANGED <<forest, detector, classifier, is_trained, sevVars, explVars, appVars,
                   twin, alertVars, attrVars, ioVars>>

\* the library outcomes with which initialize completes
Completing == {lib \in LibOutcomes : lib.sample /\ (lib.tree \/ lib.kernel)}

NextRepro ==
    \/ Idle /\ \E X \in Matrices, lib \in Completing, y2 \in Labels :
           initialize_twins(X, <<-1>>, lib, y2)
    \/ Idle /\ \E shap \in ShapCalls : CallAE_explain(QueryMatrix, "none", shap)
    \/ Idle /\ \E shap \in ShapCalls : CallAE_get_force_plot_data(QueryMatrix, "none", shap)
    \/ Idle /\ \E shap \in ShapCalls : CallAE_get_waterfall_data(QueryMatrix, "none", shap)
    \/ Idle /\ \E shap \in ShapCalls : CallTwin_explain(QueryMatrix, "none", shap)
    \/ Remember

----------------------------------------------------------------------------
(* app.py: the two handlers that use the explainer.                      *)

NoLibFailure == [sample |-> TRUE, tree |-> TRUE, kernel |-> TRUE, rf |-> TRUE, y_dummy |-> 0]

\* run_detection(n_events); raws: the raw scores of the generated events under
\* the forest fitted on them (no event: the frame has no feature column)
run_detection(raws, lib) ==
    /\ forest[DetectorForest].gen < MaxFits
    /\ LET det0 == IF app.simulator THEN detector ELSE NewAnomalyDetector(DefaultContamination)
           fst0 == IF app.simulator THEN forest
                   ELSE [forest EXCEPT ![DetectorForest] = NewForest(DefaultContamination)]
           exp0 == IF app.simulator THEN explainer ELSE NewAlertExplainer
           app0 == [app EXCEPT !.simulator = TRUE]
           names == IF Len(raws) = 0 THEN "none" ELSE "schemaA"
           fit == AnomalyDetector_fit(det0, fst0, raws, names)
           X == fit.forest[DetectorForest].gen
           results == AnomalyDetector_detect(fit.detector, fit.forest, raws)
           init == AlertExplainer_initialize(exp0, fit.forest, X, names, DetectorForest,
                                             <<>>, lib)
       IN  IF Len(raws) = 0
           THEN /\ app' = [app0 EXCEPT !.available_features = names]
                /\ detector' = det0
                /\ forest' = fst0
                /\ explainer' = exp0
                /\ ret' = Call("run_detection", raws, <<>>, Return(<<>>), FALSE)
           ELSE /\ detector' = fit.detector
                /\ forest' = fit.forest
                /\ IF app.shap_initialized
                   THEN /\ explainer' = exp0
                        /\ app' = [app0 EXCEPT !.available_features = names, !.X_scaled = X]
                        /\ ret' = Call("run_detection", raws, <<>>, results, FALSE)
                   ELSE /\ explainer' = init.explainer
                        /\ app' = [app0 EXCEPT !.available_features = names, !.X_scaled = X,
                                               !.shap_initialized = IsReturn(init.out)]
                        /\ ret' = Call("run_detection", raws, <<>>,
                                       IF IsRaise(init.out) THEN init.out ELSE results, FALSE)
    /\ UNCHANGED <<classifier, is_trained, sevVars, pipeline, scalers, restVars>>

\* GET /api/explain/<index>
explain_anomaly(shapW, shapG, shapF) ==
    /\ LET exp0 == IF app.simulator THEN explainer ELSE NewAlertExplainer
           waterfall == AlertExplainer_get_waterfall_data(exp0, app.X_scaled,
                                                          app.available_features, shapW)
           global_imp == AlertExplainer_get_global_importance(exp0, app.X_scaled,
                                                              app.available_features, shapG)
           force_plot == AlertExplainer_get_force_plot_data(exp0, app.X_scaled,
                                                            app.available_features, shapF)
           out == IF ~app.shap_initialized \/ app.X_scaled = 0
                  THEN [status |-> 400, body |-> <<>>]
                  ELSE IF IsRaise(waterfall) \/ IsRaise(global_imp) \/ IsRaise(force_plot)
                  THEN [status |-> 500, body |-> <<>>]
                  ELSE [status |-> 200,
                        body |-> <<waterfall.value, global_imp.value, force_plot.value>>]
       IN  /\ ret' = Call("explain_anomaly", app.X_scaled, <<>>, Return(out), FALSE)
           /\ explainer' = exp0
           /\ app' = [app EXCEPT !.simulator = TRUE]
           /\ detector' = IF app.simulator THEN detector
                          ELSE NewAnomalyDetector(DefaultContamination)
           /\ forest' = IF app.simulator THEN forest
                        ELSE [forest EXCEPT ![DetectorForest] = NewForest(DefaultContamination)]
    /\ UNCHANGED <<classifier, is_trained, sevVars, pipeline, scalers, restVars>>

NextApp ==
    \/ Idle /\ \E raws \in Batches :
           \E lib \in (IF app.shap_initialized THEN {NoLibFailure} ELSE LibOutcomes) :
               run_detection(raws, lib)
    \/ Idle /\ \E ok \in BOOLEAN, sW \in Samples, sG \in Samples, sF \in Samples :
           explain_anomaly([ok |-> ok, sample |-> sW], [ok |-> ok, sample |-> sG],
                           [ok |-> ok, sample |-> sF])
    \/ TakeOutcome

----------------------------------------------------------------------------
(* Calls on the alert manager.                                            *)

\* the alerts the detect endpoint creates: a severity and the title for a user
CreateArgs == {<<"CRITICAL", "Anomaly detected for admin">>,
               <<"LOW", "Anomaly detected for root">>}
StatusArgs == {"INVESTIGATING", "RESOLVED"}
AlertIds == {AlertId(c, now) : c \in 1 .. MaxAlerts, now \in 0 .. MaxClock}

alertFrame == <<forest, detector, classifier, is_trained, sevVars, explVars, appVars,
                reproVars, attrVars>>

CallAM_create_alert(severity, title, source) ==
    /\ manager.alert_counter < MaxAlerts
    /\ LET r == AlertManager_create_alert(manager, severity, title, "Anomaly score: 0.912",
                                          source, "None", clock)
       IN  /\ manager' = r.manager
           /\ ret' = Call("AlertManager.create_alert",
                          [severity |-> severity, title |-> title,
                           description |-> "Anomaly score: 0.912"], <<>>, r.out, FALSE)
    /\ UNCHANGED <<clock, ioVars, alertFrame>>

CallAM_update_status(alert_id, status) ==
    /\ LET r == AlertManager_update_status(manager, alert_id, status)
       IN  /\ manager' = r.manager
           /\ ret' = Call("AlertManager.update_status",
                          [alert_id |-> alert_id, status |-> status], <<>>, r.out, FALSE)
    /\ UNCHANGED <<clock, ioVars, alertFrame>>

\* time passes
Tick ==
    /\ clock < MaxClock
    /\ clock' = clock + 1
    /\ UNCHANGED <<manager, ret, ioVars, alertFrame>>

DefaultLimit == 100
Limits == {0, 1, DefaultLimit}
Filters(values) == {"None"} \cup values

CallAM_get_alerts(severity, status, limit) ==
    /\ LET r == AlertManager_get_alerts(manager, severity, status, limit)
       IN  /\ manager' = r.manager
           /\ ret' = Call("AlertManager.get_alerts",
                          [severity |-> severity, status |-> status, limit |-> limit],
                          <<>>, r.out, FALSE)
    /\ UNCHANGED <<clock, ioVars, alertFrame>>

CallAM_get_statistics ==
    /\ LET r == AlertManager_get_statistics(manager)
       IN  /\ manager' = r.manager
           /\ ret' = Call("AlertManager.get_statistics", <<>>, <<>>, r.out, FALSE)
    /\ UNCHANGED <<clock, ioVars, alertFrame>>

NextAlerts ==
    \/ Idle /\ \E args \in CreateArgs :
           CallAM_create_alert(args[1], args[2], "anomaly_detector")
    \/ Idle /\ \E alert_id \in AlertIds, status \in StatusArgs :
           CallAM_update_status(alert_id, status)
    \/ Idle /\ \E severity \in Filters({"CRITICAL"}), status \in Filters({"NEW"}),
                   limit \in Limits : CallAM_get_alerts(severity, status, limit)
    \/ Idle /\ CallAM_get_statistics
    \/ Idle /\ Tick
    \/ TakeOutcome

\* The alerts file: export_json writes it, import_json reads it, and a new
\* process starts with a new AlertManager while the file stays.
Sources == {"anomaly_detector", "threat_intel"}

CallAM_add_explanation(alert_id) ==
    /\ LET r == AlertManager_add_explanation(manager, alert_id,
                                             "This alert fired because: error_rate is elevated",
                                             "{error_rate: 0.4}")
       IN  /\ manager' = r.manager
           /\ ret' = Call("AlertManager.add_explanation", [alert_id |-> alert_id], <<>>,
                          r.out, FALSE)
    /\ UNCHANGED <<clock, ioVars, alertFrame>>

CallAM_export_json ==
    /\ disk' = [disk EXCEPT !.alerts = AlertManager_export_json(manager)]
    /\ ret' = Call("AlertManager.export_json", <<>>, <<>>, Return("None"), FALSE)
    /\ UNCHANGED <<manager, clock, intelVars, alertFrame>>

CallAM_import_json ==
    /\ LET r == AlertManager_import_json(manager, disk.alerts, clock)
       IN  /\ manager' = r.manager
           /\ ret' = Call("AlertManager.import_json", <<>>, <<>>, r.out, FALSE)
    /\ UNCHANGED <<clock, ioVars, alertFrame>>

\* get_alert_manager() in a new process
NewProcess ==
    /\ manager # NewAlertManager
    /\ manager' = NewAlertManager
    /\ UNCHANGED <<ret, clock, ioVars, alertFrame>>

NextStore ==
    \/ Idle /\ Len(manager.alerts) < MaxAlerts /\ \E source \in Sources :
           CallAM_create_alert("CRITICAL", "Anomaly detected for admin", source)
    \/ Idle /\ manager.alerts # <<>> /\ manager.alerts[1].status = "NEW" /\
           CallAM_update_status(manager.alerts[1].alert_id, "RESOLVED")
    \/ Idle /\ manager.alerts # <<>> /\ manager.alerts[1].explanation = "None" /\
           CallAM_add_explanation(manager.alerts[1].alert_id)
    \/ Idle /\ manager.alerts # <<>> /\ CallAM_export_json
    \/ Idle /\ CallAM_import_json
    \/ Idle /\ NewProcess
    \/ Idle /\ Tick
    \/ TakeOutcome

----------------------------------------------------------------------------
(* The attribution queries on concrete data: the explainer inp, initialized  *)
(* over a schema of w names, is asked about a matrix of w columns.           *)

\* FEATURE_COLUMNS of the apps; a wider schema continues with generated names
FeatureColumns ==
    << "login_failure_count", "login_success_count", "unique_ips", "request_rate",
       "avg_response_time", "error_rate", "bytes_sent", "hour_of_day",
       "is_business_hours", "day_of_week", "is_weekend", "geo_countries_accessed" >>
FeatureName(j) == IF j <= Len(FeatureColumns) THEN FeatureColumns[j]
                  ELSE "feature_" \o ToString(j)
Schema(w) == [j \in 1 .. w |-> FeatureName(j)]
Widths == {0, 1, 3, 6, MaxWidth}
\* the matrix has one column per name, and one column when there is no name
WidthFor(names) == IF names = <<>> THEN 1 ELSE Len(names)

\* a row of w values in -2 .. 2
Vec(w, a, b) == [j \in 1 .. w |-> ((a * j + b) % 5) - 2]
XInputs(w) == {[i \in 1 .. rows |-> Vec(w, i, c)] : rows \in 1 .. MaxRows, c \in {0, 1}}
\* what shap_values(X) and expected_value give: an exception, or a matrix of the
\* shape of X and a base value
ShapOutcomes(X) ==
    {NoShap} \cup
    {[ok |-> TRUE,
      values |-> [i \in DOMAIN X |-> Vec(Len(X[1]), a + i - 1, b)],
      base |-> bv] : a \in {0, 1}, b \in 0 .. 4, bv \in {Zero, Half}}
\* the feature_names argument: None, the schema, the schema without its last
\* name, in reverse order, and with one name more
NamesArguments(schema) ==
    {<<>>, schema, Front(schema), Reverse(schema), Schema(Len(schema) + 1)}

\* initialize, lines 22 and 52: the schema is stored first, is_initialized last
Attr_initialize(w, completes) ==
    /\ res.op = "none"
    /\ inp' = [is_initialized |-> completes, feature_names |-> Schema(w)]
    /\ UNCHANGED <<scoreVars, ret, sevVars, explVars, appVars, reproVars, alertVars, ioVars, res>>

Computed(op, names_arg, X, shap, out) ==
    /\ res.op = "none"
    /\ res' = [op |-> op, names_arg |-> names_arg, X |-> X, shap |-> shap,
               out |-> out, degraded |-> inp.is_initialized /\ ~shap.ok]
    /\ UNCHANGED <<scoreVars, ret, sevVars, explVars, appVars, reproVars, alertVars, ioVars, inp>>

Attr_explain(e, names_arg, X, shap) ==
    IF ~e.is_initialized THEN NotInitialized
    ELSE ExplainData(e.feature_names, names_arg, X, shap)

Attr_get_force_plot_data(e, names_arg, X, shap) ==
    IF ~e.is_initialized THEN NotInitialized
    ELSE ForcePlotData(e.feature_names, names_arg, X, shap)

Attr_get_waterfall_data(e, names_arg, X, shap) ==
    LET force_data == Attr_get_force_plot_data(e, names_arg, X, shap)
    IN  IF IsRaise(force_data) THEN force_data ELSE WaterfallData(force_data.value)

Attr_get_summary_plot_data(e, names_arg, X, shap) ==
    IF ~e.is_initialized THEN NotInitialized
    ELSE SummaryPlotData(e.feature_names, names_arg, X, shap)

Attr_get_global_importance(e, names_arg, X, shap) ==
    LET summary == Attr_get_summary_plot_data(e, names_arg, X, shap)
    IN  IF IsRaise(summary) THEN summary ELSE GlobalImportance(summary.value)

CallAttr_explain(names_arg, X, shap) ==
    Computed("explain", names_arg, X, shap, Attr_explain(inp, names_arg, X, shap))
CallAttr_get_force_plot_data(names_arg, X, shap) ==
    Computed("get_force_plot_data", names_arg, X, shap,
             Attr_get_force_plot_data(inp, names_arg, X, shap))
CallAttr_get_waterfall_data(names_arg, X, shap) ==
    Computed("get_waterfall_data", names_arg, X, shap,
             Attr_get_waterfall_data(inp, names_arg, X, shap))
CallAttr_get_summary_plot_data(names_arg, X, shap) ==
    Computed("get_summary_plot_data", names_arg, X, shap,
             Attr_get_summary_plot_data(inp, names_arg, X, shap))
CallAttr_get_global_importance(names_arg, X, shap) ==
    Computed("get_global_importance", names_arg, X, shap,
             Attr_get_global_importance(inp, names_arg, X, shap))

\* the caller takes the result
TakeResult ==
    /\ res.op # "none"
    /\ res' = NoResult
    /\ UNCHANGED <<scoreVars, ret, sevVars, explVars, appVars, reproVars, alertVars, ioVars, inp>>

NextAttr ==
    \/ res.op = "none" /\ \E w \in Widths, completes \in BOOLEAN : Attr_initialize(w, completes)
    \/ res.op = "none" /\
          \E names_arg \in NamesArguments(inp.feature_names),
             X \in XInputs(WidthFor(inp.feature_names)) :
             \E shap \in ShapOutcomes(X) : CallAttr_explain(names_arg, X, shap)
    \/ res.op = "none" /\
          \E names_arg \in NamesArguments(inp.feature_names),
             X \in XInputs(WidthFor(inp.feature_names)) :
             \E shap \in ShapOutcomes(X) : CallAttr_get_force_plot_data(names_arg, X, shap)
    \/ res.op = "none" /\
          \E names_arg \in NamesArguments(inp.feature_names),
             X \in XInputs(WidthFor(inp.feature_names)) :
             \E shap \in ShapOutcomes(X) : CallAttr_get_waterfall_data(names_arg, X, shap)
    \/ res.op = "none" /\
          \E names_arg \in NamesArguments(inp.feature_names),
             X \in XInputs(WidthFor(inp.feature_names)) :
             \E shap \in ShapOutcomes(X) : CallAttr_get_summary_plot_data(names_arg, X, shap)
    \/ res.op = "none" /\
          \E names_arg \in NamesArguments(inp.feature_names),
             X \in XInputs(WidthFor(inp.feature_names)) :
             \E shap \in ShapOutcomes(X) : CallAttr_get_global_importance(names_arg, X, shap)
    \/ TakeResult

----------------------------------------------------------------------------
(* gradio_app.py and the model files.  The module keeps a detector and an  *)
(* explainer as app.py does, and global_state["shap_initialized"]; the      *)
(* slider of the page gives the contamination in percent, 1 to 20.          *)

Contaminations == {1, DefaultContamination, 20}

Schemas == {"schemaA", "schemaB"}

\* run_detection(n_events, contamination); raws: the raw scores of the generated
\* events under the forest fitted on them (no event: no feature column, and the
\* handler returns before it touches the detector)
gradio_run_detection(pct, raws, lib) ==
    /\ forest[DetectorForest].gen < MaxFits
    /\ LET det1 == [detector EXCEPT !.contamination = pct]
           fit == AnomalyDetector_fit(det1, forest, raws, "schemaA")
           X == fit.forest[DetectorForest].gen
           results == AnomalyDetector_detect(fit.detector, fit.forest, raws)
           init == AlertExplainer_initialize(explainer, fit.forest, X, "schemaA",
                                             DetectorForest, <<>>, lib)
       IN  IF Len(raws) = 0
           THEN /\ ret' = Call("gradio.run_detection", raws, <<>>,
                               Return("No features found"), FALSE)
                /\ UNCHANGED <<detector, forest, explainer, app>>
           ELSE /\ detector' = fit.detector
                /\ forest' = fit.forest
                /\ IF app.shap_initialized
                   THEN /\ ret' = Call("gradio.run_detection", raws, <<>>, results, FALSE)
                        /\ UNCHANGED <<explainer, app>>
                   ELSE /\ explainer' = init.explainer
                        /\ app' = [app EXCEPT !.shap_initialized = IsReturn(init.out)]
                        /\ ret' = Call("gradio.run_detection", raws, <<>>,
                                       IF IsRaise(init.out) THEN init.out ELSE results, FALSE)
    /\ UNCHANGED <<classifier, is_trained, sevVars, pipeline, scalers, restVars>>

persistFrame == <<is_trained, sevVars, explVars, appVars, reproVars, alertVars, attrVars,
                  intelVars>>

CallAD_save ==
    /\ disk' = [disk EXCEPT !.detector = AnomalyDetector_save(detector, forest)]
    /\ ret' = Call("AnomalyDetector.save", <<>>, <<>>, Return("None"), FALSE)
    /\ UNCHANGED <<forest, detector, classifier, persistFrame>>

CallAD_load ==
    /\ LET r == AnomalyDetector_load(detector, forest, disk.detector)
       IN  /\ detector' = r.detector
           /\ forest' = r.forest
           /\ ret' = Call("AnomalyDetector.load", <<>>, <<>>, r.out, FALSE)
    /\ UNCHANGED <<classifier, disk, persistFrame>>

CallSC_fit(names, splitOk) ==
    /\ LET r == SupervisedClassifier_fit(classifier, names, splitOk)
       IN  /\ classifier' = r.classifier
           /\ ret' = Call("SupervisedClassifier.fit", <<>>, <<>>, r.out, TRUE)
    /\ UNCHANGED <<forest, detector, disk, persistFrame>>

CallSC_save ==
    /\ disk' = [disk EXCEPT !.classifier = SupervisedClassifier_save(classifier)]
    /\ ret' = Call("SupervisedClassifier.save", <<>>, <<>>, Return("None"), TRUE)
    /\ UNCHANGED <<forest, detector, classifier, persistFrame>>

CallSC_load ==
    /\ LET r == SupervisedClassifier_load(classifier, disk.classifier)
       IN  /\ classifier' = r.classifier
           /\ ret' = Call("SupervisedClassifier.load", <<>>, <<>>, r.out, TRUE)
    /\ UNCHANGED <<forest, detector, disk, persistFrame>>

\* the process starts again: the objects are constructed anew, the files stay
RestartPage ==
    /\ <<forest, detector, explainer, app>> #
           <<[id \in ForestIds |-> NewForest(DefaultContamination)],
             NewAnomalyDetector(DefaultContamination), NewAlertExplainer, NewApp>>
    /\ forest' = [id \in ForestIds |-> NewForest(DefaultContamination)]
    /\ detector' = NewAnomalyDetector(DefaultContamination)
    /\ explainer' = NewAlertExplainer
    /\ app' = NewApp
    /\ UNCHANGED <<classifier, is_trained, ret, sevVars, pipeline, scalers, restVars>>

RestartClassifier ==
    /\ classifier # NewSupervisedClassifier
    /\ classifier' = NewSupervisedClassifier
    /\ UNCHANGED <<forest, detector, is_trained, ret, sevVars, explVars, appVars, restVars>>

NextPage ==
    \/ Idle /\ \E pct \in Contaminations, raws \in Batches :
           \E lib \in (IF app.shap_initialized THEN {NoLibFailure} ELSE OneLabelling) :
               gradio_run_detection(pct, raws, lib)
    \/ Idle /\ CallAD_save
    \/ Idle /\ CallAD_load
    \/ Idle /\ RestartPage
    \/ TakeOutcome

NextPersist ==
    \/ Idle /\ \E names \in Schemas, splitOk \in BOOLEAN : CallSC_fit(names, splitOk)
    \/ Idle /\ CallSC_save
    \/ Idle /\ CallSC_load
    \/ Idle /\ \E sup \in AllSupBatches : CallSC_predict(sup)
    \/ Idle /\ \E sup \in AllSupBatches : CallSC_predict_proba(sup)
    \/ Idle /\ RestartClassifier
    \/ TakeOutcome

----------------------------------------------------------------------------
(* Calls on the threat-intelligence clients.  Time passes by itself, also  *)
(* while a request is under way.                                           *)

intelFrame == <<forest, detector, classifier, is_trained, sevVars, explVars, appVars,
                reproVars, alertVars, attrVars, disk>>

\* minutes between two observations of the clock
Elapse == {59, 60}

Advance(d) ==
    /\ Idle
    /\ minute + d <= MaxTime
    /\ minute' = minute + d
    /\ UNCHANGED <<ret, intel, req, lookup, answered, intelFrame>>

\* ThreatIntelligenceClient.check_ip, up to its call of _make_request
CallTI_check_ip(ip) ==
    /\ req.phase = "idle"
    /\ LET cached == ThreatIntelligenceClient_check_ip_cached(intel, ip, minute)
       IN  req' = IF cached # NoData
                  THEN [NoRequest EXCEPT !.ip = ip, !.out = cached]
                  ELSE ThreatIntelligenceClient_make_request(intel, ip)
    /\ UNCHANGED <<ret, minute, intel, lookup, answered, intelFrame>>

\* requests.get returns or raises (timeout=10)
ServerAnswers(status, body) ==
    /\ req.phase = "get"
    /\ req' = MakeRequest_response(req, status, body)
    /\ UNCHANGED <<ret, minute, intel, lookup, answered, intelFrame>>

\* time.sleep(60) returns and the frame retries
SleepEnds ==
    /\ req.phase = "sleep"
    /\ req' = MakeRequest_retry(req)
    /\ UNCHANGED <<ret, minute, intel, lookup, answered, intelFrame>>

\* the frame of a retry returns to the frame that called it
Unwind ==
    /\ req.phase = "return"
    /\ req.depth > 1
    /\ req' = MakeRequest_return(req)
    /\ UNCHANGED <<ret, minute, intel, lookup, answered, intelFrame>>

\* the first frame returns to check_ip, which parses, caches and returns
FinishTI_check_ip ==
    /\ req.phase = "return"
    /\ req.depth = 1
    /\ LET r == ThreatIntelligenceClient_check_ip_data(intel, req.ip, req.value, minute)
       IN  /\ intel' = r.client
           /\ req' = [NoRequest EXCEPT !.ip = req.ip, !.out = r.out]
    /\ UNCHANGED <<ret, minute, lookup, answered, intelFrame>>

RequestStep ==
    \/ \E status \in Statuses, body \in Bodies : ServerAnswers(status, body)
    \/ SleepEnds
    \/ Unwind
    \/ FinishTI_check_ip

\* ThreatIntelligenceClient(api_key): a new client, with or without a key
NewIntelClient(api_key) ==
    /\ req.phase = "idle"
    /\ intel # NewThreatIntelligenceClient(api_key)
    /\ intel' = NewThreatIntelligenceClient(api_key)
    /\ UNCHANGED <<ret, minute, req, lookup, answered, intelFrame>>

NextIntel ==
    \/ \E ip \in IPs : CallTI_check_ip(ip)
    \/ \E status \in Statuses, body \in Bodies : ServerAnswers(status, body)
    \/ SleepEnds
    \/ Unwind
    \/ FinishTI_check_ip
    \/ \E api_key \in BOOLEAN : NewIntelClient(api_key)
    \/ \E d \in Elapse : Advance(d)

\* ThreatIntelClient.check_ip
CallTC_check_ip(ip, net) ==
    /\ LET r == ThreatIntelClient_check_ip(lookup, ip, minute, net)
       IN  /\ lookup' = r.client
           /\ ret' = Call("ThreatIntelClient.check_ip", ip, <<>>, Return(r.out), r.fresh)
           /\ answered' = IF r.fresh THEN [answered EXCEPT ![ip] = Entry(r.out, minute)]
                          ELSE answered
    /\ UNCHANGED <<minute, intel, req, intelFrame>>

\* ThreatIntelClient(abuseipdb_api_key, virustotal_api_key): a new client
NewLookupClient(abuseipdb_key, virustotal_key) ==
    /\ lookup # NewThreatIntelClient(abuseipdb_key, virustotal_key)
    /\ lookup' = NewThreatIntelClient(abuseipdb_key, virustotal_key)
    /\ answered' = NoCache
    /\ UNCHANGED <<ret, minute, intel, req, intelFrame>>

NextLookup ==
    \/ Idle /\ \E ip \in IPs, net \in Networks : CallTC_check_ip(ip, net)
    \/ Idle /\ \E abuseipdb_key \in BOOLEAN, virustotal_key \in BOOLEAN :
           NewLookupClient(abuseipdb_key, virustotal_key)
    \/ \E d \in Elapse : Advance(d)
    \/ TakeOutcome

vars == <<forest, detector, classifier, is_trained, ret, sevA, sevE,
          explainer, pipeline, scalers, app, twin, prev, manager, clock, inp, res, disk,
          minute, intel, req, lookup, answered>>
SpecScore == InitScore /\ [][NextScore]_vars

InitSev == InitScorers /\ InitSeverity /\ InitExplainer /\ InitApp /\ InitRest
NextSev ==
    \/ \E s \in ScoreGrid : CallAD_get_severity(s)
    \/ \E s \in ScoreGrid : CallED_get_severity(s)
SpecSeverity == InitSev /\ [][NextSev]_vars
SpecExplainer == InitExpl /\ [][NextExpl]_vars
SpecApp == InitExpl /\ [][NextApp]_vars
SpecAlerts == InitExpl /\ [][NextAlerts]_vars
SpecStore == InitExpl /\ [][NextStore]_vars
SpecPage == InitExpl /\ [][NextPage]_vars
SpecPersist == InitExpl /\ [][NextPersist]_vars
SpecLookup == InitExpl /\ [][NextLookup]_vars
\* requests.get ends (timeout=10), time.sleep(60) ends, and a return is taken
SpecIntel == InitExpl /\ [][NextIntel]_vars /\ WF_req(RequestStep)
SpecAttribution == InitExpl /\ [][NextAttr]_vars
SpecRepro == InitExpl /\ [][NextRepro]_vars

----------------------------------------------------------------------------
(* Properties of the scorers *)

InUnit(p) == RLe(Zero, p) /\ RLe(p, One)
\* 1 - (raw - min)/(max - min + eps) in closed form, for row i of a batch of raw scores
Rescaled(X, i) ==
    Rat((SeqMax(X) - X[i]) * EpsDen + 1, (SeqMax(X) - SeqMin(X)) * EpsDen + 1)
Returned(op) == ret.op = op /\ IsReturn(ret.out)
FourFields == {"is_anomaly", "anomaly_score", "severity", "confidence"}

\* C3: a scorer method called before the corresponding fit raises a not-fitted error
\* and returns no value (SupervisedClassifier: predict, predict_proba, evaluate,
\* get_feature_importance; AnomalyDetector and EnsembleDetector: predict,
\* predict_proba, detect).
C3_UnfittedRaises ==
    LET classifierMethods == {"SupervisedClassifier.predict", "SupervisedClassifier.predict_proba",
                              "SupervisedClassifier.evaluate",
                              "SupervisedClassifier.get_feature_importance"}
        detectorMethods == {"AnomalyDetector.predict", "AnomalyDetector.predict_proba",
                            "AnomalyDetector.detect", "EnsembleDetector.predict",
                            "EnsembleDetector.detect"}
        unfitted == \/ ret.op \in classifierMethods /\ ~classifier.model_fitted
                    \/ ret.op \in detectorMethods /\ ~forest[detector.isolation_forest].fitted
    IN  unfitted =>
            /\ IsRaise(ret.out)
            /\ ret.out.exc \in {"NotFittedError", "ValueError: Model not fitted"}

\* C4: _get_severity of both classes is CRITICAL above 0.95, HIGH in (0.85, 0.95],
\* MEDIUM in (0.70, 0.85], LOW up to 0.70, and the two agree on every score.
C4_SeverityBands ==
    /\ \A r \in {sevA, sevE} : r.severity # "none" =>
          /\ r.severity = "CRITICAL" <=> r.score.n * 100 > 95 * r.score.d
          /\ r.severity = "HIGH" <=>
                (r.score.n * 100 > 85 * r.score.d /\ r.score.n * 100 <= 95 * r.score.d)
          /\ r.severity = "MEDIUM" <=>
                (r.score.n * 100 > 70 * r.score.d /\ r.score.n * 100 <= 85 * r.score.d)
          /\ r.severity = "LOW" <=> r.score.n * 100 <= 70 * r.score.d
    /\ (sevA.severity # "none" /\ sevE.severity # "none" /\ REq(sevA.score, sevE.score))
          => sevA.severity = sevE.severity

\* both functions were applied to exactly 0.95 and answered HIGH
C4_Witness ==
    /\ REq(sevA.score, Rat(95, 100)) /\ sevA.severity = "HIGH"
    /\ REq(sevE.score, Rat(95, 100)) /\ sevE.severity = "HIGH"

C6_HighestRawGetsZero ==
    Returned("AnomalyDetector.predict_proba") =>
        \A i \in DOMAIN ret.X :
           /\ ret.X[i] = SeqMin(ret.X) => REq(ret.out.value[i], One)
           /\ ret.X[i] = SeqMax(ret.X) => REq(ret.out.value[i], Zero)
           /\ \A j \in DOMAIN ret.X :
                 ret.X[i] < ret.X[j] <=> RGt(ret.out.value[i], ret.out.value[j])

\* C6 amended: score = 1 - (raw - min)/(max - min + eps); the lowest raw score gets
\* exactly 1.0; the highest raw score gets eps/(max - min + eps), which is above 0 and
\* is 1.0 when all raw scores of the batch are equal (a single row included); the
\* order of the scores is the reverse of the order of the raw scores.
C6_Rescaling ==
    Returned("AnomalyDetector.predict_proba") =>
        /\ Len(ret.out.value) = Len(ret.X)
        /\ \A i \in DOMAIN ret.X :
              /\ REq(ret.out.value[i], Rescaled(ret.X, i))
              /\ ret.X[i] = SeqMin(ret.X) => REq(ret.out.value[i], One)
              /\ ret.X[i] = SeqMax(ret.X) =>
                    /\ REq(ret.out.value[i],
                           Rat(1, (SeqMax(ret.X) - SeqMin(ret.X)) * EpsDen + 1))
                    /\ RGt(ret.out.value[i], Zero)
                    /\ SeqMin(ret.X) = SeqMax(ret.X) => REq(ret.out.value[i], One)
              /\ \A j \in DOMAIN ret.X :
                    ret.X[i] < ret.X[j] <=> RGt(ret.out.value[i], ret.out.value[j])

\* predict_proba returned for a batch of two rows with different raw scores
C6_Witness ==
    /\ Returned("AnomalyDetector.predict_proba")
    /\ Len(ret.X) = 2 /\ ret.X[1] < ret.X[2]
    /\ REq(ret.out.value[1], One) /\ RLt(ret.out.value[2], Half)

\* C7: detect of both classes returns one result per input vector, result i for
\* vector i, each with the four fields is_anomaly, anomaly_score, severity, confidence.
C7_OneResultPerVector ==
    \A op \in {"AnomalyDetector.detect", "EnsembleDetector.detect"} :
        Returned(op) =>
            /\ Len(ret.out.value) = Len(ret.X)
            /\ \A i \in DOMAIN ret.X :
                  /\ DOMAIN ret.out.value[i] = FourFields
                  /\ ~ret.consulted => REq(ret.out.value[i].anomaly_score, Rescaled(ret.X, i))

\* C8: EnsembleDetector.predict returns (unsup + sup)/2 per vector when the supervised
\* model has been fitted and exactly the unsupervised score otherwise; the classifier
\* is called only after fit_supervised has completed.
C8_Blend ==
    /\ ret.op \in {"EnsembleDetector.predict", "EnsembleDetector.detect"} /\ ret.consulted
          => classifier.model_fitted /\ is_trained
    /\ Returned("EnsembleDetector.predict") =>
          /\ DOMAIN ret.out.value.proba = DOMAIN ret.X
          /\ \A i \in DOMAIN ret.X :
                IF classifier.model_fitted
                THEN /\ ret.out.value.proba[i].n * 2 * Rescaled(ret.X, i).d * ret.sup[i].d
                          = (Rescaled(ret.X, i).n * ret.sup[i].d
                               + ret.sup[i].n * Rescaled(ret.X, i).d) * ret.out.value.proba[i].d
                     /\ ret.consulted
                ELSE /\ REq(ret.out.value.proba[i], Rescaled(ret.X, i))
                     /\ ~ret.consulted

\* predict blended a batch of two rows with the supervised probabilities
C8_Witness ==
    /\ Returned("EnsembleDetector.predict")
    /\ ret.consulted /\ Len(ret.X) = 2
    /\ \E i \in DOMAIN ret.X : ~REq(ret.out.value.proba[i], Rescaled(ret.X, i))

\* C9 as stated: is_anomaly is true exactly when the ensemble score is > 0.5, with
\* and without supervised scores.
C9_VerdictIsScoreAboveHalf ==
    Returned("EnsembleDetector.predict") =>
        \A i \in DOMAIN ret.X :
            ret.out.value.pred[i] = 1 <=> RGt(ret.out.value.proba[i], Half)

\* C9 amended: with supervised scores the verdict is ensemble score > 0.5; with
\* unsupervised scores only it is the forest's own verdict, raw score below the
\* cutoff frozen at fit (the contamination percentile of the fit batch).
C9_Verdict ==
    Returned("EnsembleDetector.predict") =>
        \A i \in DOMAIN ret.X :
            /\ ret.out.value.pred[i] \in {0, 1}
            /\ IF is_trained
               THEN ret.out.value.pred[i] = 1 <=>
                        ret.out.value.proba[i].n * 2 > ret.out.value.proba[i].d
               ELSE ret.out.value.pred[i] = 1 <=>
                        ret.X[i] * 100 < forest[detector.isolation_forest].offset

\* a blended score of exactly 0.5 was not flagged
C9_Witness ==
    /\ Returned("EnsembleDetector.predict") /\ is_trained
    /\ \E i \in DOMAIN ret.X :
          REq(ret.out.value.proba[i], Half) /\ ret.out.value.pred[i] = 0


\* C1: an explanation app.py serves (status 200) comes from an explainer that
\* was initialized on the matrix of the most recent fit, with the forest as
\* that fit left it.
C1_ServedByFreshExplainer ==
    (ret.op = "explain_anomaly" /\ ret.out.value.status = 200) =>
        /\ explainer.X_train = app.X_scaled
        /\ explainer.shap_explainer.kind = "TreeExplainer" =>
               explainer.shap_explainer.model_gen = forest[DetectorForest].gen

\* C2: a query on an AlertExplainer whose initialize never completed raises
\* the not-initialized error, returns no value, and leaves the explainer as
\* it was.
C2_UninitializedQueryRaises ==
    [][(ret'.op \in ExplainerQueries /\ ~explainer.is_initialized) =>
           /\ IsRaise(ret'.out)
           /\ ret'.out.exc = NotInitialized.exc
           /\ explainer' = explainer]_<<ret.op, explainer>>

\* an initialize that raised half-way, then a query that raised
C2_Witness ==
    /\ ret.op = "AlertExplainer.get_global_importance"
    /\ ~explainer.is_initialized
    /\ explainer.X_train # 0
    /\ IsRaise(ret.out)
    /\ ret.out.exc = NotInitialized.exc

\* C10: a fit never changes an object that was fitted before: the forest of
\* the detector, the scaler of the pipeline and the initialized explainer
\* stay as they are, and the fit produces a new state.
C10_CopyOnRefit ==
    [][/\ \A id \in ForestIds : forest[id].fitted => forest'[id] = forest[id]
       /\ \A id \in ScalerIds : scalers[id].fitted => scalers'[id] = scalers[id]
       /\ explainer.is_initialized => explainer' = explainer]_vars


\* C19: create_alert appends exactly one alert, with the given severity,
\* title and description and status NEW, and returns it; the alerts stored
\* before stay as they were, and a manager that was only ever asked to
\* create alerts holds as many alerts as it was asked to create.
C19_CreateAppendsOne ==
    [][ret'.op = "AlertManager.create_alert" =>
           LET new == manager'.alerts[Len(manager'.alerts)]
           IN  /\ Len(manager'.alerts) = Len(manager.alerts) + 1
               /\ SubSeq(manager'.alerts, 1, Len(manager.alerts)) = manager.alerts
               /\ new.severity = ret'.X.severity
               /\ new.title = ret'.X.title
               /\ new.description = ret'.X.description
               /\ new.status = "NEW"
               /\ ret'.out = Return(new)
               /\ Len(manager'.alerts) = manager'.alert_counter]_<<ret.op, manager>>

\* a second alert was created after the first one had its status changed
C19_Witness ==
    /\ ret.op = "AlertManager.create_alert"
    /\ Len(manager.alerts) = 2
    /\ manager.alerts[1].status # "NEW"
    /\ manager.alerts[2].status = "NEW"

\* C20: update_status returns True exactly when an alert with the id is
\* stored; it then sets the status of that alert and changes nothing else;
\* otherwise it returns False and changes nothing.
C20_UpdateStatus ==
    [][ret'.op = "AlertManager.update_status" =>
           LET id == ret'.X.alert_id
               stored == {i \in DOMAIN manager.alerts : manager.alerts[i].alert_id = id}
           IN  /\ ret'.out = Return(stored # {})
               /\ DOMAIN manager'.alerts = DOMAIN manager.alerts
               /\ manager'.alert_counter = manager.alert_counter
               /\ \A i \in DOMAIN manager.alerts :
                      IF i \in stored
                      THEN manager'.alerts[i] =
                               [manager.alerts[i] EXCEPT !.status = ret'.X.status]
                      ELSE manager'.alerts[i] = manager.alerts[i]]_<<ret.op, manager>>

\* one of two stored alerts got a new status, the other kept NEW
C20_Witness ==
    /\ ret.op = "AlertManager.update_status"
    /\ ret.out = Return(TRUE)
    /\ Len(manager.alerts) = 2
    /\ manager.alerts[2].status = ret.X.status
    /\ manager.alerts[1].status = "NEW"


\* C11: a detection run returns the detector's results, one per event, also
\* when the explainer could not be initialized during the run.
C11_RunReturnsResults ==
    ret.op = "run_detection" =>
        /\ IsReturn(ret.out)
        /\ Len(ret.out.value) = Len(ret.X)


IdempotentQueries ==
    {"AlertExplainer.explain", "AlertExplainer.get_waterfall_data",
     "AlertExplainer.get_force_plot_data"}

\* C14: explain, get_waterfall_data and get_force_plot_data called a second
\* time with the same arguments, right after the first call on the same
\* initialized explainer, return what the first call returned and leave the
\* explainer as it was.
C14_Idempotent ==
    [][(/\ ret'.op \in IdempotentQueries
        /\ explainer.is_initialized
        /\ prev.op = ret'.op
        /\ prev.X = ret'.X
        /\ prev.sup = ret'.sup) =>
           (ret'.out = prev.out /\ explainer' = explainer)]_<<ret.op, explainer>>

\* C15: two explainers initialized with the same matrix, feature names and
\* model return the same explanations for the same input (here with
\* attribution objects that draw no sample at explain time).
C15_Reproducible ==
    (/\ ret.op = "twin.explain"
     /\ prev.op = "AlertExplainer.explain"
     /\ prev.X = ret.X
     /\ prev.sup = ret.sup
     /\ explainer.is_initialized /\ twin.is_initialized
     /\ explainer.X_train = twin.X_train
     /\ explainer.feature_names = twin.feature_names
     /\ explainer.model = twin.model
     /\ explainer.explainer.kind # "KernelExplainer"
     /\ twin.explainer.kind # "KernelExplainer") =>
        ret.out = prev.out

----------------------------------------------------------------------------
(* Attributions on concrete data                                           *)

\* what the query op returns for the explainer e
AttrQuery(op, e, names_arg, X, shap) ==
    CASE op = "explain" -> Attr_explain(e, names_arg, X, shap)
      [] op = "get_force_plot_data" -> Attr_get_force_plot_data(e, names_arg, X, shap)
      [] op = "get_waterfall_data" -> Attr_get_waterfall_data(e, names_arg, X, shap)
      [] op = "get_summary_plot_data" -> Attr_get_summary_plot_data(e, names_arg, X, shap)
      [] op = "get_global_importance" -> Attr_get_global_importance(e, names_arg, X, shap)

\* C12: whenever the attribution of a query degrades to the fallback (explain
\* through _fallback_explain, the force and summary data through zeros), the
\* result that is returned carries an explicit marker of the degradation: it
\* differs from every result the same query returns over the same matrix and
\* names when the attribution succeeds
C12_DegradedIsMarked ==
    (res.degraded /\ IsReturn(res.out)) =>
        \A shap \in ShapOutcomes(res.X) :
            shap.ok => AttrQuery(res.op, inp, res.names_arg, res.X, shap) # res.out

\* C13: explain called with a feature_names list whose length or ordering
\* differs from the feature_names recorded at initialize raises an error; no
\* explanation is returned for a mismatched schema
C13_SchemaMismatchRaises ==
    (/\ res.op = "explain"
     /\ inp.is_initialized
     /\ NamesOr(res.names_arg, inp.feature_names) # inp.feature_names)
        => IsRaise(res.out)

Tenth == Rat(1, 10)
NonIncreasing(values) ==
    \A k \in DOMAIN values : k > 1 => RLe(values[k], values[k - 1])
PercentagesAddUp(g) ==
    LET total == RSum([i \in DOMAIN g.relative_importance |-> g.relative_importance[i].value])
    IN  RLe(RAbs(RSub(total, Hundred)), Tenth)

\* C16: for every matrix passed to get_global_importance the relative_importance
\* percentages over all features sum to 100 within 0.1, also when every
\* attribution is zero; top_3_contribution is the sum of the first three entries
\* of ranked_features, which are sorted by non-increasing percentage
C16_PercentagesSumTo100 ==
    (res.op = "get_global_importance" /\ IsReturn(res.out)) =>
        LET g == res.out.value
            ranked == [k \in DOMAIN g.ranked_features |-> g.ranked_features[k].value]
        IN  /\ PercentagesAddUp(g)
            /\ REq(g.top_3_contribution, RSum(Take(ranked, 3)))
            /\ NonIncreasing(ranked)

\* the entry of the waterfall for column i of the force plot data
WaterfallEntry(force, i) ==
    [feature |-> force.feature_names[i],
     shap_value |-> force.shap_values[i],
     feature_value |-> force.feature_values[i],
     abs_shap |-> Abs(force.shap_values[i])]

\* C17: get_waterfall_data returns the features of the explained vector sorted by
\* non-increasing |shap_value|, at most 15 of them (the largest ones), each
\* entry pairing a feature name with the shap value and the feature value of
\* that same feature, together with the base_value and the prediction of
\* get_force_plot_data for the same vector
C17_WaterfallSortedCapped ==
    (res.op = "get_waterfall_data" /\ IsReturn(res.out)) =>
        LET w == res.out.value
            force == Attr_get_force_plot_data(inp, res.names_arg, res.X, res.shap).value
            n == Min(Len(force.feature_names),
                     Min(Len(force.shap_values), Len(force.feature_values)))
        IN  /\ force.feature_values = res.X[1]
            /\ force.feature_names = NamesOr(res.names_arg, inp.feature_names)
            /\ Len(w.features) = Min(WaterfallCap, n)
            /\ \A k \in DOMAIN w.features :
                  k > 1 => Abs(w.features[k].shap_value) <= Abs(w.features[k - 1].shap_value)
            /\ \A k, l \in DOMAIN w.features :
                  w.features[k].feature = w.features[l].feature => k = l
            /\ \A k \in DOMAIN w.features :
                  \E i \in 1 .. n : w.features[k] = WaterfallEntry(force, i)
            /\ \A i \in 1 .. n :
                  (\A l \in DOMAIN w.features : w.features[l].feature # force.feature_names[i])
                      => \A k \in DOMAIN w.features :
                            Abs(force.shap_values[i]) <= Abs(w.features[k].shap_value)
            /\ w.base_value = force.base_value
            /\ w.prediction = force.prediction

\* a waterfall over more than 15 features whose order is not the schema's
C17_Witness ==
    /\ res.op = "get_waterfall_data"
    /\ IsReturn(res.out)
    /\ res.shap.ok
    /\ Len(res.X[1]) > WaterfallCap
    /\ Len(res.out.value.features) = WaterfallCap
    /\ res.out.value.features[1].abs_shap > res.out.value.features[WaterfallCap].abs_shap
    /\ res.out.value.features[1].feature # inp.feature_names[1]

\* the attributions map of an explanation: shap_values, or feature_values on
\* the fallback path
AttributionsOf(explanation, degraded) ==
    IF degraded THEN explanation.feature_values ELSE explanation.shap_values

\* C18: for each vector explain returns an attribution for every feature of the
\* schema (the names the call uses: its feature_names argument, else the names
\* recorded at initialize) and a top_features list, the five largest, ordered by
\* non-increasing |attribution|, on the normal path and on the fallback path;
\* every entry of top_features is an entry of the attributions map
C18_ExplainRanksAll ==
    (res.op = "explain" /\ IsReturn(res.out)) =>
        /\ DOMAIN res.out.value = DOMAIN res.X
        /\ \A r \in DOMAIN res.out.value :
              LET e == res.out.value[r]
                  names == NamesOr(res.names_arg, inp.feature_names)
                  attributions == AttributionsOf(e, res.degraded)
                  column == IF res.degraded THEN res.X[r] ELSE res.shap.values[r]
              IN  /\ attributions = [j \in DOMAIN names |->
                                        [name |-> names[j], value |-> column[j]]]
                  /\ Len(e.top_features) = Min(TopFeatures, Len(attributions))
                  /\ \A k \in DOMAIN e.top_features :
                        /\ k > 1 => Abs(e.top_features[k].value) <= Abs(e.top_features[k - 1].value)
                        /\ \E j \in DOMAIN attributions : e.top_features[k] = attributions[j]
                  /\ \A k, l \in DOMAIN e.top_features :
                        e.top_features[k].name = e.top_features[l].name => k = l
                  /\ \A j \in DOMAIN attributions :
                        (\A l \in DOMAIN e.top_features : e.top_features[l].name # attributions[j].name)
                            => \A k \in DOMAIN e.top_features :
                                  Abs(attributions[j].value) <= Abs(e.top_features[k].value)

\* explanations on the normal path over more than five features, ranked in an
\* order that is not the schema's
C18_Witness ==
    /\ res.op = "explain"
    /\ IsReturn(res.out)
    /\ res.names_arg = <<>>
    /\ ~res.degraded
    /\ Len(inp.feature_names) > TopFeatures
    /\ Len(res.X) > 1
    /\ Len(res.out.value[1].top_features) = TopFeatures
    /\ res.out.value[1].top_features[1].name # inp.feature_names[1]
    /\ Abs(res.out.value[1].top_features[1].value)
           > Abs(res.out.value[1].top_features[TopFeatures].value)

----------------------------------------------------------------------------
(* Queries on the alert manager, and the alerts file                       *)

\* the stored alerts that pass the filters of a get_alerts call
Matching(alerts, severity, status) ==
    {i \in DOMAIN alerts :
        /\ severity # "None" => alerts[i].severity = severity
        /\ status # "None" => alerts[i].status = status}

\* C21: get_alerts(severity, status, limit) returns exactly the stored alerts
\* whose severity equals the severity filter (when given) and whose status
\* equals the status filter (when given), newest timestamp first, truncated to
\* at most limit entries (the newest ones); with no filter it returns all stored
\* alerts up to limit; and it does not modify the manager
C21_GetAlerts ==
    [][ret'.op = "AlertManager.get_alerts" =>
           LET out == ret'.out.value
               alerts == manager.alerts
               matching == Matching(alerts, ret'.X.severity, ret'.X.status)
               returned == {i \in matching : \E k \in DOMAIN out : out[k] = Alert_to_dict(alerts[i])}
           IN  /\ manager' = manager
               /\ IsReturn(ret'.out)
               /\ Len(out) = Min(ret'.X.limit, Cardinality(matching))
               /\ Cardinality(returned) = Len(out)
               /\ \A k \in DOMAIN out : \E i \in matching : out[k] = Alert_to_dict(alerts[i])
               /\ \A k \in DOMAIN out :
                      k > 1 => FromIsoFormat(out[k].timestamp) <= FromIsoFormat(out[k - 1].timestamp)
               /\ \A i \in matching \ returned : \A k \in DOMAIN out :
                      alerts[i].timestamp <= FromIsoFormat(out[k].timestamp)]_<<ret.op, manager>>

\* of two stored alerts that pass both filters, created at different times, a
\* limit of one returns the newer, which is stored second
C21_Witness ==
    /\ ret.op = "AlertManager.get_alerts"
    /\ ret.X.severity # "None"
    /\ ret.X.status # "None"
    /\ ret.X.limit = 1
    /\ Cardinality(Matching(manager.alerts, ret.X.severity, ret.X.status)) = 2
    /\ manager.alerts[1].timestamp < manager.alerts[2].timestamp
    /\ ret.out.value = <<Alert_to_dict(manager.alerts[2])>>

RECURSIVE SumOfDict(_, _)
SumOfDict(d, keys) ==
    IF keys = {} THEN 0
    ELSE LET k == CHOOSE k \in keys : TRUE IN d[k] + SumOfDict(d, keys \ {k})

\* C22: after any sequence of create_alert and update_status calls
\* get_statistics reports total_alerts equal to the number of stored alerts,
\* by_severity and by_status counts that each sum to total_alerts, each count
\* being the number of alerts with that value, and unresolved equal to the
\* number of alerts whose status is NEW or INVESTIGATING
C22_Statistics ==
    ret.op = "AlertManager.get_statistics" =>
        LET stats == ret.out.value
            alerts == manager.alerts
        IN  /\ stats.total_alerts = Len(alerts)
            /\ \A v \in DOMAIN stats.by_severity :
                   stats.by_severity[v] = Cardinality({i \in DOMAIN alerts : alerts[i].severity = v})
            /\ \A v \in DOMAIN stats.by_status :
                   stats.by_status[v] = Cardinality({i \in DOMAIN alerts : alerts[i].status = v})
            /\ SumOfDict(stats.by_severity, DOMAIN stats.by_severity) = stats.total_alerts
            /\ SumOfDict(stats.by_status, DOMAIN stats.by_status) = stats.total_alerts
            /\ \A i \in DOMAIN alerts : /\ alerts[i].severity \in DOMAIN stats.by_severity
                                        /\ alerts[i].status \in DOMAIN stats.by_status
            /\ stats.unresolved =
                   Cardinality({i \in DOMAIN alerts : alerts[i].status \in {"NEW", "INVESTIGATING"}})

\* three kinds of status among the stored alerts, one of them resolved
C22_Witness ==
    /\ ret.op = "AlertManager.get_statistics"
    /\ ret.out.value.total_alerts = 2
    /\ ret.out.value.unresolved = 1
    /\ ret.out.value.by_status["INVESTIGATING"] = 1
    /\ ret.out.value.by_status["RESOLVED"] = 1

\* C25: within one AlertManager, after any sequence of create_alert and
\* import_json calls, no two stored alerts have the same alert_id
C25_UniqueAlertIds ==
    \A i, j \in DOMAIN manager.alerts :
        manager.alerts[i].alert_id = manager.alerts[j].alert_id => i = j

\* C28: alert serialization round-trips: for every stored alert a,
\* Alert.from_dict(a.to_dict()), through the JSON text export_json writes and
\* import_json reads, has the same alert_id, severity, title, description,
\* timestamp, source, metadata, status, explanation and shap_values as a
C28_RoundTrip ==
    \A i \in DOMAIN manager.alerts :
        LET a == manager.alerts[i]
            read == JsonLoad(JsonDump(<<Alert_to_dict(a)>>))
        IN  Alert_from_dict(read[1], clock) = a

----------------------------------------------------------------------------
(* The natural-language summary                                            *)

\* the phrase the rules give for a feature, by the first rule that matches the
\* lower-cased name
RulePhrase(name, value) ==
    LET l == Lower(name)
        direction == IF value > 0 THEN "elevated" ELSE "depressed"
        failure_or_error == Contains(l, "failure") \/ Contains(l, "error")
        rate_or_count == Contains(l, "rate") \/ Contains(l, "count")
    IN  CASE failure_or_error ->
                 name \o " is " \o direction \o " (" \o TwoDecimals(Abs(value)) \o " std)"
          [] ~failure_or_error /\ rate_or_count -> name \o " is " \o direction
          [] ~failure_or_error /\ ~rate_or_count /\ Contains(l, "time") ->
                 "response " \o direction
          [] OTHER -> name \o ": " \o direction

\* the phrases of the first k features, separated by commas
RECURSIVE Joined(_, _)
Joined(top, k) ==
    IF k = 1 THEN RulePhrase(top[1].name, top[1].value)
    ELSE Joined(top, k - 1) \o ", " \o RulePhrase(top[k].name, top[k].value)

\* C23: the natural-language summary of an explanation is built from the top 2
\* to 3 ranked features (from the only one when there is one), the phrase of
\* each feature chosen by the first matching rule on its lower-cased name:
\* 'failure' or 'error', then 'rate' or 'count', then 'time', else the name with
\* the direction, elevated for a value > 0 and depressed otherwise; an empty
\* feature list yields 'No significant features found.'
C23_SummaryByRules ==
    (res.op = "explain" /\ IsReturn(res.out)) =>
        \A r \in DOMAIN res.out.value :
            LET e == res.out.value[r]
                top == e.top_features
            IN  IF top = <<>> THEN e.explanation = "No significant features found."
                ELSE \E k \in 1 .. 3 :
                        /\ k <= Len(top)
                        /\ Len(top) >= 2 => k >= 2
                        /\ e.explanation = "This alert fired because: " \o Joined(top, k)

\* a summary whose first phrase falls under the failure rule, though the name
\* also contains 'count', and whose second falls under the time rule
C23_Witness ==
    /\ res.op = "explain"
    /\ IsReturn(res.out)
    /\ Len(res.out.value[1].top_features) > 3
    /\ res.out.value[1].explanation =
           "This alert fired because: login_failure_count is depressed (2.00 std), response elevated"

----------------------------------------------------------------------------
(* The detector and the classifier across runs, save and load              *)

\* C24: the contamination recorded on the detector is the contamination its
\* isolation forest uses, after construction, after a detection run of the page
\* has assigned a new one, and after load.
C24_ContaminationAgrees ==
    detector.contamination = forest[detector.isolation_forest].contamination

\* C27: is_fitted is true only if the model of the classifier has been fitted,
\* and then feature_names are the names of the fit that produced the model.
C27_FittedFlagSound ==
    classifier.is_fitted =>
        /\ classifier.model_fitted
        /\ classifier.feature_names = classifier.model_names

----------------------------------------------------------------------------
(* The explainer across a failing initialize                               *)

\* C26: initialize is atomic: a call of initialize that raises leaves the
\* explainer exactly as it was before the call.
C26_InitializeAtomic ==
    [][(ret'.op = "AlertExplainer.initialize" /\ IsRaise(ret'.out))
          => explainer' = explainer]_<<ret.op, explainer>>

----------------------------------------------------------------------------
(* The threat-intelligence clients                                         *)

\* C29: _make_request always terminates: whatever the server answers, also a
\* server that keeps answering 429, a request under way eventually returns a
\* response or None, and the retries never exceed a fixed number.
C29_RequestTerminates ==
    /\ [](req.depth <= RecursionLimit)
    /\ (req.phase # "idle") ~> (req.phase = "idle")

\* a server answered 429 until the last frame the interpreter allows, and the
\* request is returning None through its frames
C29_Witness ==
    /\ req.phase = "return"
    /\ req.depth = RecursionLimit
    /\ req.value = NoBody

\* C30: within the cache lifetime, a check_ip for an IP returns the result the
\* latest lookup for that IP produced, without a new lookup, whichever source
\* produced it.
C30_CachedAndReused ==
    [][ret'.op = "ThreatIntelClient.check_ip" =>
          LET a == answered[ret'.X]
          IN  (a.set /\ minute - a.at < CacheDuration) =>
                  (ret'.out = Return(a.data) /\ ~ret'.consulted)]_<<ret.op, minute, answered>>

============================================================================
